---- MODULE Spec2Model ----
(***************************************************************************)
(* Task Ticker: the task dependency / recurrence engine.                   *)
(*                                                                         *)
(* The state is the caller-owned task collection, seen through its         *)
(* id -> Task lookup (logic/operations.py create_task_lookup), and the     *)
(* outcome of the last call of toggle_status.  Task objects are shared by  *)
(* the collection and the lookup, so an in-place change of a task is a     *)
(* change of the lookup entry.                                             *)
(*                                                                         *)
(* The validator (logic/validation.py) and the undo stack (ui/undo.py) are *)
(* checked under specifications of their own: SpecGraph, SpecCreation and  *)
(* SpecUndo.  Each specification leaves the variables of the others at     *)
(* their idle values.                                                      *)
(***************************************************************************)
EXTENDS Integers, Sequences, FiniteSets, TLC

VARIABLES
    tasks,      \* the lookup: task id -> Task object (models/task.py Task)
    ret,        \* how the last toggle_status call ended
    rules,      \* the rules dict handed to the validator
    cand,       \* the candidate task handed to validate_task_creation
    report,     \* what the last validator call returned or raised
    undo_stack, \* UndoManager.undo_stack
    redo_stack, \* UndoManager.redo_stack
    limit,      \* UndoManager.limit
    last        \* the last UndoManager call: its result and the callback it invoked

vars == <<tasks, ret, rules, cand, report, undo_stack, redo_stack, limit, last>>

\* the variables of the validator and of the undo stack
validator_vars == <<rules, cand, report>>
undo_vars == <<undo_stack, redo_stack, limit, last>>

----------------------------------------------------------------------------
(* Bounds of the model *)

\* number of depends_on / subtasks references in the loaded task file
MaxEdges == 2

----------------------------------------------------------------------------
(* Values *)

\* Python's None, for ids and references
None == 0

\* the ids of the tasks of the collection
TaskIds == {1, 2, 3}

\* an id that no task of the collection has (a dangling reference)
Missing == Cardinality(TaskIds) + 1

\* the n-th id that uuid4() returns in a call: fresh, never an id in use
uuid4(n) == Missing + 1 + n

\* what a depends_on or subtasks entry can name
Targets == TaskIds \cup {Missing}

----------------------------------------------------------------------------
(* Calendar dates: datetime.fromisoformat / timedelta / date.replace, as   *)
(* compute_next_due_date uses them.  A date is [year, month, day].         *)

Date(y, m, d) == [year |-> y, month |-> m, day |-> d]

IsLeap(y) == (y % 4 = 0 /\ y % 100 # 0) \/ y % 400 = 0

DaysInMonth(y, m) ==
    IF m = 2 THEN (IF IsLeap(y) THEN 29 ELSE 28)
    ELSE IF m \in {4, 6, 9, 11} THEN 30 ELSE 31

\* number of days before January 1st of year y (proleptic Gregorian)
DaysBeforeYear(y) ==
    (y - 1) * 365 + ((y - 1) \div 4) - ((y - 1) \div 100) + ((y - 1) \div 400)

RECURSIVE DaysBeforeMonth(_, _)
DaysBeforeMonth(y, m) ==
    IF m = 1 THEN 0 ELSE DaysBeforeMonth(y, m - 1) + DaysInMonth(y, m - 1)

\* date.toordinal()
ToOrdinal(dt) == DaysBeforeYear(dt.year) + DaysBeforeMonth(dt.year, dt.month) + dt.day

RECURSIVE OrdinalYear(_, _)
OrdinalYear(n, y) == IF n > DaysBeforeYear(y + 1) THEN OrdinalYear(n, y + 1) ELSE y

RECURSIVE OrdinalMonth(_, _, _)
OrdinalMonth(n, y, m) ==
    IF n > DaysInMonth(y, m) THEN OrdinalMonth(n - DaysInMonth(y, m), y, m + 1) ELSE m

\* date.fromordinal(n)
FromOrdinal(n) ==
    LET y == OrdinalYear(n, (n \div 366) + 1)
        r == n - DaysBeforeYear(y)
        m == OrdinalMonth(r, y, 1)
    IN  Date(y, m, r - DaysBeforeMonth(y, m))

\* date + timedelta(days=n)
AddDays(dt, n) == FromOrdinal(ToOrdinal(dt) + n)

\* does date(y, m, d) exist?  date.replace raises ValueError when it does not
ValidDate(y, m, d) == m \in 1..12 /\ d >= 1 /\ d <= DaysInMonth(y, m)

----------------------------------------------------------------------------
(* A call's outcome: Python raises or returns *)

Returned(v) == [raised |-> "", value |-> v]
Raised(e)   == [raised |-> e, value |-> None]

\* compute_next_due_date(current_due, frequency, interval)
compute_next_due_date(current_due, frequency, interval) ==
    IF frequency = "daily" THEN Returned(AddDays(current_due, interval))
    ELSE IF frequency = "weekly" THEN Returned(AddDays(current_due, 7 * interval))
    ELSE IF frequency = "monthly" THEN
        LET new_month == current_due.month - 1 + interval
            year  == current_due.year + (new_month \div 12)
            month == (new_month % 12) + 1
            day   == IF current_due.day < 28 THEN current_due.day ELSE 28
        IN  Returned(Date(year, month, day))
    ELSE IF frequency = "yearly" THEN
        IF ValidDate(current_due.year + interval, current_due.month, current_due.day)
        THEN Returned(Date(current_due.year + interval, current_due.month, current_due.day))
        ELSE Raised("ValueError:date")
    ELSE Returned(current_due)

----------------------------------------------------------------------------
(* models/task.py: TaskMeta and Task *)

\* a recurrence dict; a key that is absent holds "" (interval: -1)
Recurrence(f, i, c) == [frequency |-> f, interval |-> i, clone_type |-> c]

\* recurrence = None (what from_dict passes when the record has no such key)
NoRecurrence == Recurrence("", -1, "")

\* dict.get(key, default) on a recurrence dict
Get(r, key, default) ==
    IF key = "interval"
    THEN (IF r.interval = -1 THEN default ELSE r.interval)
    ELSE (IF r[key] = "" THEN default ELSE r[key])

\* the default recurrence of TaskMeta
DefaultRecurrence == Recurrence("none", 1, "shallow")

\* due_date = None
NoDate == Date(0, 0, 0)

\* datetime.now().date() and datetime.now().isoformat() of the session
Today == Date(2024, 3, 1)
Now == "now"

\* TaskMeta(): every field at its default
TaskMeta ==
    [group |-> "General", due_date |-> NoDate, priority |-> "normal",
     status |-> "pending", sequence |-> 1, depends_on |-> None, notes |-> "",
     tags |-> <<>>, recurrence |-> DefaultRecurrence, parent_id |-> None,
     subtasks |-> <<>>, task_id |-> None, created_at |-> ""]

\* str.lower() on the status and priority words
Lower(s) ==
    CASE s = "Done" -> "done" [] s = "Pending" -> "pending"
      [] s = "High" -> "high" [] s = "Normal" -> "normal" [] OTHER -> s

\* str.title().strip() on the group names
TitleStrip(s) ==
    CASE s = "general" -> "General" [] s = "work" -> "Work"
      [] s = " " -> "" [] OTHER -> s

\* the Note objects of the session; a notes field holds a str or refers to one
NoteObjects == {"<Note 1>", "<Note 2>"}

\* isinstance(v, Note)
IsNote(v) == v \in NoteObjects

\* note.id (None == 0 is no note's id) and note.content
NoteId(note) == IF note = "<Note 1>" THEN 1 ELSE 2
NoteContent(note) == IF note = "<Note 1>" THEN "memo" ELSE " memo "

\* str.strip() on the notes texts
Strip(s) == IF s = " memo " THEN "memo" ELSE s

\* Task.__init__(self, task, meta); u is the id uuid4() would return
Task__init__(task, m, u) ==
    [id         |-> IF m.task_id # None THEN m.task_id ELSE u,
     task       |-> task,
     group      |-> IF TitleStrip(m.group) # "" THEN TitleStrip(m.group) ELSE "General",
     due_date   |-> IF m.due_date # NoDate THEN m.due_date ELSE Today,
     created_at |-> IF m.created_at # "" THEN m.created_at ELSE Now,
     priority   |-> Lower(m.priority),
     status     |-> Lower(m.status),
     sequence   |-> m.sequence,
     depends_on |-> m.depends_on,
     notes      |-> IF IsNote(m.notes) THEN m.notes ELSE Strip(m.notes),
     note_id    |-> None,
     tags       |-> m.tags,
     recurrence |-> m.recurrence,
     parent_id  |-> m.parent_id,
     subtasks   |-> m.subtasks]

\* the parameters Task.__init__ declares besides self
TaskParams == {"task", "meta"}

\* a constructor that takes the fields of TaskMeta as keywords
TaskCall_keywords(kwargs, u) ==
    CHOOSE r \in {Returned(Task__init__(kw.task,
                                        [k \in DOMAIN TaskMeta |->
                                            IF k \in DOMAIN kw THEN kw[k] ELSE TaskMeta[k]],
                                        u)) : kw \in {kwargs}} : TRUE

\* the call Task(**kwargs): Python binds the keywords to the parameters of
\* __init__ and raises TypeError on a keyword that names none of them
TaskCall(kwargs, u) ==
    IF DOMAIN kwargs \subseteq TaskParams
    THEN Returned(Task__init__(kwargs.task, kwargs.meta, u))
    ELSE Raised("TypeError")

\* data.get(key, default) on a record of the task file
DictGet(data, key, default) == IF key \in DOMAIN data THEN data[key] ELSE default

\* Task.from_dict(data): recurrence, due_date, created_at, depends_on,
\* parent_id, id and note_id are read with data.get(key), which gives None for
\* a key the record does not hold
from_dict(data) ==
    LET meta == [group |-> DictGet(data, "group", "General"),
                 due_date |-> DictGet(data, "due_date", NoDate),
                 priority |-> DictGet(data, "priority", "normal"),
                 status |-> DictGet(data, "status", "pending"),
                 sequence |-> DictGet(data, "sequence", 1),
                 depends_on |-> DictGet(data, "depends_on", None),
                 notes |-> DictGet(data, "notes", ""),
                 tags |-> DictGet(data, "tags", <<>>),
                 recurrence |-> DictGet(data, "recurrence", NoRecurrence),
                 parent_id |-> DictGet(data, "parent_id", None),
                 subtasks |-> DictGet(data, "subtasks", <<>>),
                 task_id |-> DictGet(data, "id", None),
                 created_at |-> DictGet(data, "created_at", "")]
        t == Task__init__(DictGet(data, "task", ""), meta, None)
    IN  [t EXCEPT !.note_id = DictGet(data, "note_id", None)]

\* Task.to_dict leaving note_id out
to_dict_noNoteId(t) ==
    [id |-> t.id, task |-> t.task, group |-> t.group, due_date |-> t.due_date,
     created_at |-> t.created_at, priority |-> t.priority, status |-> t.status,
     sequence |-> t.sequence, depends_on |-> t.depends_on,
     notes |-> IF IsNote(t.notes) THEN NoteContent(t.notes) ELSE t.notes,
     note_id |-> None,
     tags |-> t.tags, recurrence |-> t.recurrence, parent_id |-> t.parent_id,
     subtasks |-> t.subtasks]

\* Task.to_dict
to_dict(t) ==
    [id |-> t.id, task |-> t.task, group |-> t.group, due_date |-> t.due_date,
     created_at |-> t.created_at, priority |-> t.priority, status |-> t.status,
     sequence |-> t.sequence, depends_on |-> t.depends_on,
     notes |-> IF IsNote(t.notes) THEN NoteContent(t.notes) ELSE t.notes,
     note_id |-> IF IsNote(t.notes) THEN NoteId(t.notes) ELSE t.note_id,
     tags |-> t.tags, recurrence |-> t.recurrence, parent_id |-> t.parent_id,
     subtasks |-> t.subtasks]

\* Task.is_done
is_done(task) == task.status = "done"

\* dict.get / "in" on the lookup
InLookup(lookup, id) == id \in DOMAIN lookup

\* is_blocked with the test of the predecessor inverted
is_blocked_inverted(task, lookup) ==
    IF task.depends_on = None THEN FALSE
    ELSE InLookup(lookup, task.depends_on) /\ is_done(lookup[task.depends_on])

\* is_blocked failing closed: a predecessor missing from the lookup blocks
is_blocked_failclosed(task, lookup) ==
    IF task.depends_on = None THEN FALSE
    ELSE ~InLookup(lookup, task.depends_on) \/ ~is_done(lookup[task.depends_on])

\* Task.is_blocked(task_lookup)
is_blocked(task, lookup) ==
    IF task.depends_on = None THEN FALSE
    ELSE InLookup(lookup, task.depends_on) /\ ~is_done(lookup[task.depends_on])

\* Task.is_parent_blocked(task_lookup)
is_parent_blocked(task, lookup) ==
    \E i \in 1..Len(task.subtasks) :
        /\ InLookup(lookup, task.subtasks[i])
        /\ ~is_done(lookup[task.subtasks[i]])

\* the value a call returns when it returns None instead of a Task
NoTask == Task__init__("", TaskMeta, None)

----------------------------------------------------------------------------
(* logic/operations.py: the recurrence cloner *)

\* is_recurring(task)
is_recurring(task) == Get(task.recurrence, "frequency", "none") # "none"

\* shallow_clone(task, new_due); n uuid4() calls were made before
shallow_clone(task, new_due, n) ==
    TaskCall([task       |-> task.task,
              group      |-> task.group,
              due_date   |-> new_due,
              priority   |-> task.priority,
              status     |-> "pending",
              sequence   |-> task.sequence,
              notes      |-> task.notes,
              tags       |-> task.tags,
              recurrence |-> NoRecurrence,
              task_id    |-> uuid4(n),
              created_at |-> Now,
              depends_on |-> task.depends_on],
             uuid4(n + 1))

\* the empty id_map: dict.get answers None for every key
EmptyIdMap == [k \in Targets \cup {None} |-> None]

RECURSIVE clone_task_recursive(_, _, _, _)
RECURSIVE CloneSubtasks(_, _, _, _, _, _)

\* clone_task_recursive(task, parent) of recursive_deep_clone.  st carries the
\* id_map, the number of uuid4() calls made so far and the Task objects
\* constructed so far; the result carries them on
clone_task_recursive(task, lookup, delta, st) ==
    LET new_id == uuid4(st.n)
        id_map == [st.id_map EXCEPT ![task.id] = new_id]
        st1    == [id_map |-> id_map, n |-> st.n + 1, made |-> st.made]
        cloned == TaskCall([task       |-> task.task,
                            group      |-> task.group,
                            due_date   |-> AddDays(task.due_date, delta),
                            priority   |-> task.priority,
                            status     |-> "pending",
                            sequence   |-> task.sequence,
                            notes      |-> task.notes,
                            tags       |-> task.tags,
                            recurrence |-> NoRecurrence,
                            depends_on |-> id_map[task.depends_on],
                            task_id    |-> new_id,
                            created_at |-> Now],
                           uuid4(st.n + 1))
    IN  IF cloned.raised # ""
        THEN [raised |-> cloned.raised, value |-> NoTask, st |-> st1]
        ELSE CloneSubtasks(task.subtasks, 1,
                           [cloned.value EXCEPT !.subtasks = <<>>],
                           lookup, delta,
                           [st1 EXCEPT !.made = Append(@, cloned.value)])

\* the loop over task.subtasks, from its i-th entry on
CloneSubtasks(subs, i, cloned, lookup, delta, st) ==
    IF i > Len(subs) THEN [raised |-> "", value |-> cloned, st |-> st]
    ELSE IF ~InLookup(lookup, subs[i])
    THEN CloneSubtasks(subs, i + 1, cloned, lookup, delta, st)
    ELSE LET sub == clone_task_recursive(lookup[subs[i]], lookup, delta, st)
         IN  IF sub.raised # "" THEN sub
             ELSE CloneSubtasks(subs, i + 1,
                                [cloned EXCEPT !.subtasks = Append(@, sub.value.id)],
                                lookup, delta, sub.st)

\* recursive_deep_clone(original, lookup, new_due, id_map)
recursive_deep_clone(original, lookup, new_due, id_map) ==
    LET delta == ToOrdinal(new_due) - ToOrdinal(original.due_date)
        r     == clone_task_recursive(original, lookup, delta,
                                      [id_map |-> id_map, n |-> 0, made |-> <<>>])
    IN  [raised |-> r.raised, value |-> r.value,
         id_map |-> r.st.id_map, made |-> r.st.made]

\* clone_recurring_task(task, task_lookup)
clone_recurring_task(task, lookup) ==
    LET freq       == Get(task.recurrence, "frequency", "none")
        interval   == Get(task.recurrence, "interval", 1)
        clone_type == Get(task.recurrence, "clone_type", "shallow")
        new_due    == compute_next_due_date(task.due_date, freq, interval)
    IN  IF new_due.raised # ""
        THEN [raised |-> new_due.raised, value |-> NoTask,
              id_map |-> EmptyIdMap, made |-> <<>>]
        ELSE IF clone_type = "deep"
        THEN recursive_deep_clone(task, lookup, new_due.value, EmptyIdMap)
        ELSE LET c == shallow_clone(task, new_due.value, 0)
             IN  [raised |-> c.raised,
                  value  |-> IF c.raised = "" THEN c.value ELSE NoTask,
                  id_map |-> EmptyIdMap,
                  made   |-> IF c.raised = "" THEN <<c.value>> ELSE <<>>]

----------------------------------------------------------------------------
(* logic/operations.py: toggle_status *)

\* the status the assignment of toggle_status stores
Flip(status) == IF status # "done" THEN "done" ELSE "pending"

\* the subtasks test with all() in place of any(): it blocks only when every
\* subtask found in the lookup is not done
IncompleteSubtasks_all(task, lookup) ==
    /\ task.subtasks # <<>>
    /\ \A i \in 1..Len(task.subtasks) :
           task.subtasks[i] \in DOMAIN lookup => ~is_done(lookup[task.subtasks[i]])

\* the subtasks test of toggle_status: the list is non-empty and some entry
\* found in the lookup is not done
IncompleteSubtasks(task, lookup) ==
    /\ task.subtasks # <<>>
    /\ \E i \in 1..Len(task.subtasks) :
           /\ task.subtasks[i] \in DOMAIN lookup
           /\ ~is_done(lookup[task.subtasks[i]])

\* what a call of toggle_status leaves: the lookup after the call, the
\* exception raised ("" when the call returns), the task returned (NoTask when
\* the call returns None), and the id_map and the Task objects the cloner built
Outcome(lookup, raised, value, id_map, made) ==
    [lookup |-> lookup, raised |-> raised, value |-> value,
     id_map |-> id_map, made |-> made]

\* toggle_status handing the recurrence rule over to the clone: the completed
\* original loses its rule
toggle_status_handover(id, lookup) ==
    LET task == lookup[id] IN
    IF is_blocked(task, lookup)
    THEN Outcome(lookup, "ValueError:blocked", NoTask, EmptyIdMap, <<>>)
    ELSE IF IncompleteSubtasks(task, lookup)
    THEN Outcome(lookup, "ValueError:subtasks", NoTask, EmptyIdMap, <<>>)
    ELSE
        LET toggled == [task EXCEPT !.status = Flip(task.status)]
            after   == [lookup EXCEPT ![id] = toggled]
            handed  == [lookup EXCEPT ![id] = [toggled EXCEPT !.recurrence = NoRecurrence]]
        IN  IF toggled.status = "done" /\ is_recurring(toggled)
            THEN LET clone == clone_recurring_task(toggled, after)
                 IN  Outcome(handed, clone.raised, clone.value,
                             clone.id_map, clone.made)
            ELSE Outcome(after, "", NoTask, EmptyIdMap, <<>>)

\* toggle_status(task, task_lookup), task being lookup[id]
toggle_status(id, lookup) ==
    LET task == lookup[id] IN
    IF is_blocked(task, lookup)
    THEN Outcome(lookup, "ValueError:blocked", NoTask, EmptyIdMap, <<>>)
    ELSE IF IncompleteSubtasks(task, lookup)
    THEN Outcome(lookup, "ValueError:subtasks", NoTask, EmptyIdMap, <<>>)
    ELSE
        LET toggled == [task EXCEPT !.status = Flip(task.status)]
            after   == [lookup EXCEPT ![id] = toggled]
        IN  IF toggled.status = "done" /\ is_recurring(toggled)
            THEN LET clone == clone_recurring_task(toggled, after)
                 IN  Outcome(after, clone.raised, clone.value,
                             clone.id_map, clone.made)
            ELSE Outcome(after, "", NoTask, EmptyIdMap, <<>>)

----------------------------------------------------------------------------
(* The task file the session starts from *)

\* recurrence_structure: the presets the add-task form offers
recurrence_structure ==
    {Recurrence("none", 0, "shallow"),
     Recurrence("daily", 1, "shallow"),
     Recurrence("weekly", 1, "shallow"),
     Recurrence("monthly", 1, "shallow"),
     Recurrence("yearly", 1, "shallow"),
     Recurrence("weekly", 1, "deep")}

\* the recurrence of the first task: a preset, a yearly deep rule, or none at all
Recurrences ==
    recurrence_structure \cup {Recurrence("yearly", 1, "deep"), NoRecurrence}

\* the due dates of the first task
DueDates == {Date(2024, 1, 31), Date(2024, 2, 29)}

\* one reference of the file: task "from" names task "to"
Edges == [kind : {"depends_on", "subtasks"}, from : TaskIds, to : Targets]

\* the references of the file, in file order
EdgeSeqs == UNION {[1..n -> Edges] : n \in 0..MaxEdges}

\* the depends_on of task t: the last one the file gives, or None
DependsOnIn(edges, t) ==
    LET ds == SelectSeq(edges, LAMBDA e : e.kind = "depends_on" /\ e.from = t)
    IN  IF ds = <<>> THEN None ELSE ds[Len(ds)].to

\* the subtasks of task t, in file order
SubtasksIn(edges, t) ==
    LET ss == SelectSeq(edges, LAMBDA e : e.kind = "subtasks" /\ e.from = t)
    IN  [i \in 1..Len(ss) |-> ss[i].to]

\* the record of task t in the file
TaskRecord(t, edges, rule, due) ==
    [id |-> t, task |-> t, group |-> "General",
     due_date |-> IF t = 1 THEN due ELSE Date(2024, t, 15),
     created_at |-> "t0", priority |-> "normal", status |-> "pending",
     sequence |-> t, depends_on |-> DependsOnIn(edges, t), notes |-> "",
     note_id |-> None, tags |-> <<>>,
     recurrence |-> IF t = 1 THEN rule ELSE Recurrence("none", 0, "shallow"),
     parent_id |-> None, subtasks |-> SubtasksIn(edges, t)]

\* create_task_lookup(tasks) over the loaded tasks
create_task_lookup(edges, rule, due) ==
    [t \in TaskIds |-> from_dict(TaskRecord(t, edges, rule, due))]

\* no call of toggle_status yet
NoCall == [task |-> None, before |-> "", raised |-> "", value |-> NoTask,
           id_map |-> EmptyIdMap, made |-> <<>>]

\* a rules dict: each key holds "true", "false" or "absent"
Rules(strict, order, exclusive, unique) ==
    [strict_mode |-> strict, dependency_order |-> order,
     group_priority_exclusive |-> exclusive, group_unique_names |-> unique]

\* rules = None, or the empty dict
NoRules == Rules("absent", "absent", "absent", "absent")

\* no validator call yet
NoReport ==
    [call |-> "", raised |-> "", is_valid |-> TRUE, errors |-> <<>>,
     warnings |-> <<>>, affected_tasks |-> {},
     warn |-> FALSE, block |-> FALSE, message |-> ""]

\* no UndoManager call yet
NoOp ==
    LET empty == [undo_stack |-> <<>>, redo_stack |-> <<>>]
    IN  [op |-> "", result |-> FALSE, called |-> <<>>, raised |-> "", before |-> 0,
         start |-> empty,
         prev |-> [op |-> "", result |-> FALSE, called |-> <<>>, raised |-> "",
                   start |-> empty]]

\* the validator is not in use
ValidatorIdle == rules = NoRules /\ cand = NoTask /\ report = NoReport

\* the undo stack is not in use
UndoIdle ==
    undo_stack = <<>> /\ redo_stack = <<>> /\ limit = None /\ last = NoOp

Init ==
    /\ \E edges \in EdgeSeqs, rule \in Recurrences, due \in DueDates :
           tasks = create_task_lookup(edges, rule, due)
    /\ ret = NoCall
    /\ ValidatorIdle
    /\ UndoIdle

\* a caller toggles task t
Toggle(t) ==
    LET r == toggle_status(t, tasks)
    IN  /\ tasks' = r.lookup
        /\ ret' = [task |-> t, before |-> tasks[t].status,
                   raised |-> r.raised, value |-> r.value,
                   id_map |-> r.id_map, made |-> r.made]
        /\ UNCHANGED <<validator_vars, undo_vars>>

Next == \E t \in TaskIds : Toggle(t)

Spec == Init /\ [][Next]_vars

----------------------------------------------------------------------------
(* Properties of toggle_status *)

\* the depends_on of task t names a task of the lookup that is not done
DepOpen(lookup, t) ==
    /\ lookup[t].depends_on \in DOMAIN lookup
    /\ lookup[lookup[t].depends_on].status # "done"

\* some subtasks entry of task t names a task of the lookup that is not done
SubOpen(lookup, t) ==
    \E i \in 1..Len(lookup[t].subtasks) :
        /\ lookup[t].subtasks[i] \in DOMAIN lookup
        /\ lookup[lookup[t].subtasks[i]].status # "done"

\* every depends_on and subtasks entry names a task of the lookup
AllResolve ==
    \A t \in DOMAIN tasks :
        /\ tasks[t].depends_on \in DOMAIN tasks \cup {None}
        /\ \A i \in 1..Len(tasks[t].subtasks) : tasks[t].subtasks[i] \in DOMAIN tasks

\* the last call was rejected: it raised and the task is still pending
Rejected(t) == ret'.raised # "" /\ tasks'[t].status = "pending"

\* C1: toggling a pending task whose depends_on names a task of the lookup
\* that is not done raises the blocked error, leaves the task pending and
\* returns no clone.
C1_BlockedToggleRaises ==
    [][\A t \in TaskIds :
          (Toggle(t) /\ tasks[t].status = "pending" /\ DepOpen(tasks, t))
          => /\ ret'.raised = "ValueError:blocked"
             /\ tasks'[t].status = "pending"
             /\ ret'.value = NoTask
             /\ ret'.made = <<>>]_vars

\* a pending task with a pending predecessor was toggled and the call raised
C1_Witness ==
    /\ ret.task \in TaskIds
    /\ ret.before = "pending"
    /\ ret.raised = "ValueError:blocked"
    /\ tasks[ret.task].status = "pending"
    /\ tasks[ret.task].depends_on \in TaskIds \ {ret.task}
    /\ tasks[tasks[ret.task].depends_on].status = "pending"

\* C2 as stated: from an all-pending collection whose references all resolve,
\* in every state reached by toggles every done task has its depends_on
\* predecessor done and all of its subtasks done.
C2_DoneImpliesPrerequisitesDone ==
    AllResolve =>
        \A t \in TaskIds :
            tasks[t].status = "done" => ~DepOpen(tasks, t) /\ ~SubOpen(tasks, t)

\* C2 as amended: a task becomes done only in a toggle made while its
\* depends_on predecessor (if in the lookup) and all of its subtasks in the
\* lookup are done, and they are still done right after that toggle.
C2_BecomesDoneOnlyUnblocked ==
    [][\A t \in TaskIds :
          (tasks[t].status # "done" /\ tasks'[t].status = "done")
          => /\ ~DepOpen(tasks, t) /\ ~SubOpen(tasks, t)
             /\ ~DepOpen(tasks', t) /\ ~SubOpen(tasks', t)]_vars

\* a task with a predecessor and a subtask, all references resolving, has
\* just been moved to done
C2_Witness ==
    /\ AllResolve
    /\ ret.task \in TaskIds
    /\ ret.before = "pending"
    /\ tasks[ret.task].status = "done"
    /\ tasks[ret.task].depends_on \in TaskIds
    /\ tasks[ret.task].subtasks # <<>>

\* C3: a toggle of a pending task is rejected (raises, stays pending) exactly
\* when its depends_on names a not-done task of the lookup or one of its
\* subtasks entries does; ids missing from the lookup never block; in every
\* other case the status becomes done.
C3_RejectedIffBlocked ==
    [][\A t \in TaskIds :
          (Toggle(t) /\ tasks[t].status = "pending")
          => /\ Rejected(t) <=> (DepOpen(tasks, t) \/ SubOpen(tasks, t))
             /\ ~Rejected(t) => tasks'[t].status = "done"]_vars

\* a pending task whose depends_on and whose only subtask are missing from the
\* lookup was toggled, and is done
C3_Witness ==
    /\ ret.task \in TaskIds
    /\ ret.before = "pending"
    /\ tasks[ret.task].status = "done"
    /\ tasks[ret.task].depends_on = Missing
    /\ tasks[ret.task].subtasks = <<Missing>>

\* C4: a toggle of a done task always succeeds and sets it to pending, also
\* when its predecessor or one of its subtasks is not done.
C4_DoneToPendingAlwaysSucceeds ==
    (ret.task \in TaskIds /\ ret.before = "done")
        => ret.raised = "" /\ tasks[ret.task].status = "pending"

----------------------------------------------------------------------------
(* Properties of the recurrence cloner *)

\* the last call flipped a task to done
MovedToDone ==
    /\ ret.task \in TaskIds
    /\ ret.before # "done"
    /\ tasks[ret.task].status = "done"

\* the task the last call toggled
Original == tasks[ret.task]

\* the last call completed a task with an active recurrence rule of clone
\* type ct whose next due date exists
Completed(ct) ==
    /\ MovedToDone
    /\ Original.recurrence.frequency \notin {"", "none"}
    /\ Get(Original.recurrence, "clone_type", "shallow") = ct
    /\ compute_next_due_date(Original.due_date, Original.recurrence.frequency,
                             Get(Original.recurrence, "interval", 1)).raised = ""

\* the due date the rule of the completed task gives
NextDue ==
    compute_next_due_date(Original.due_date, Original.recurrence.frequency,
                          Get(Original.recurrence, "interval", 1)).value

RECURSIVE SubtreeFrom(_)
\* the ids reached from S along subtasks entries found in the lookup
SubtreeFrom(S) ==
    LET N == S \cup {c \in DOMAIN tasks :
                        \E o \in S : \E i \in 1..Len(tasks[o].subtasks) :
                            tasks[o].subtasks[i] = c}
    IN  IF N = S THEN S ELSE SubtreeFrom(N)

\* the subtree of the completed task
Subtree == SubtreeFrom({ret.task})

\* the clones (Task objects the call constructed) of original o
ClonesOf(o) ==
    {ret.made[i] : i \in {j \in 1..Len(ret.made) : ret.made[j].id = ret.id_map[o]}}

\* C5: a toggle that moves a task to done returns a new task exactly when the
\* task's frequency is not none; that task has an id other than the
\* original's and than every id of the lookup, is pending, has no active
\* recurrence and is due on compute_next_due_date of the original's due
\* date.  A toggle to pending, or of a non-recurring task, returns no task.
C5_CloneReturnedIffRecurring ==
    (ret.task \in TaskIds /\ ret.before # tasks[ret.task].status) =>
        IF MovedToDone /\ Original.recurrence.frequency \notin {"", "none"}
        THEN /\ ret.raised = ""
             /\ ret.value # NoTask
             /\ ret.value.id # Original.id
             /\ ret.value.id \notin DOMAIN tasks
             /\ ret.value.status = "pending"
             /\ ~is_recurring(ret.value)
             /\ Completed(Get(Original.recurrence, "clone_type", "shallow"))
             /\ ret.value.due_date = NextDue
        ELSE ret.raised = "" /\ ret.value = NoTask

\* C7: completing a recurring task of clone type shallow produces exactly one
\* new task, with the original's title, group, priority, sequence, tags,
\* notes and depends_on, an empty subtasks list, status pending and no
\* recurrence.
C7_ShallowCloneCopiesRoot ==
    Completed("shallow") =>
        /\ ret.raised = ""
        /\ ret.made = <<ret.value>>
        /\ ret.value.id \notin DOMAIN tasks
        /\ ret.value.task = Original.task
        /\ ret.value.group = Original.group
        /\ ret.value.priority = Original.priority
        /\ ret.value.sequence = Original.sequence
        /\ ret.value.tags = Original.tags
        /\ ret.value.notes = Original.notes
        /\ ret.value.depends_on = Original.depends_on
        /\ ret.value.subtasks = <<>>
        /\ ret.value.status = "pending"
        /\ ~is_recurring(ret.value)

\* C8: completing a recurring task of clone type deep whose subtree resolves
\* clones the subtree with its shape: every node of the subtree has one clone,
\* with as many subtasks as the node, a fresh id that no task and no other
\* clone has, status pending, and the node's due date moved by the delta of
\* the root.
C8_DeepCloneKeepsShape ==
    (Completed("deep") /\ AllResolve) =>
        /\ ret.raised = ""
        /\ ClonesOf(ret.task) = {ret.value}
        /\ \A o \in Subtree :
              /\ Cardinality(ClonesOf(o)) = 1
              /\ \A c \in ClonesOf(o) :
                    /\ c.id \notin DOMAIN tasks
                    /\ Len(c.subtasks) = Len(tasks[o].subtasks)
                    /\ c.status = "pending"
                    /\ c.due_date = AddDays(tasks[o].due_date,
                                            ToOrdinal(NextDue) - ToOrdinal(Original.due_date))
        /\ \A o1, o2 \in Subtree : o1 # o2 => ret.id_map[o1] # ret.id_map[o2]

\* C9: in a deep clone, the clone of every node whose depends_on names a node
\* of the cloned subtree depends on the clone of that node.
C9_DeepCloneRemapsInnerDependsOn ==
    Completed("deep") =>
        \A o \in Subtree :
            tasks[o].depends_on \in Subtree =>
                /\ ClonesOf(o) # {}
                /\ ClonesOf(tasks[o].depends_on) # {}
                /\ \A c \in ClonesOf(o) :
                      c.depends_on = ret.id_map[tasks[o].depends_on]

\* C10: in a deep clone, the clone of every node (root included) whose
\* depends_on names a task outside the cloned subtree keeps that id.
C10_DeepCloneKeepsOuterDependsOn ==
    Completed("deep") =>
        \A o \in Subtree :
            (tasks[o].depends_on # None /\ tasks[o].depends_on \notin Subtree) =>
                /\ ClonesOf(o) # {}
                /\ \A c \in ClonesOf(o) : c.depends_on = tasks[o].depends_on

\* C6: a call of toggle_status changes nothing but the status of the toggled
\* task: the lookup keeps its keys, every other task keeps every field, the
\* toggled task keeps every field but status, and a returned task is no entry
\* of the lookup.
C6_OnlyStatusChanges ==
    [][\A t \in TaskIds :
          Toggle(t)
          => /\ DOMAIN tasks' = DOMAIN tasks
             /\ \A u \in DOMAIN tasks \ {t} : tasks'[u] = tasks[u]
             /\ tasks'[t] = [tasks[t] EXCEPT !.status = tasks'[t].status]
             /\ \A u \in DOMAIN tasks' : tasks'[u] # ret'.value
             /\ ret'.value.id \notin DOMAIN tasks']_vars

\* a recurring task that has subtasks was completed (the cloner ran)
C6_Witness ==
    /\ ret.task \in TaskIds
    /\ ret.before = "pending"
    /\ tasks[ret.task].status = "done"
    /\ is_recurring(tasks[ret.task])
    /\ tasks[ret.task].subtasks # <<>>

----------------------------------------------------------------------------
(* logic/validation.py: validate_task_graph *)

\* number of depends_on / subtasks references of a task set handed to
\* validate_task_graph
MaxRefs == 3

\* DEFAULT_RULES
DEFAULT_RULES == Rules("false", "true", "true", "true")

\* rules = rules or DEFAULT_RULES.copy(): None and the empty dict are falsy
RulesOrDefault(r) == IF r = NoRules THEN DEFAULT_RULES ELSE r

\* rules.get(key, default), read as a truth value
RulesGet(r, key, default) == IF r[key] = "absent" THEN default ELSE r[key] = "true"

\* a.due_date < b.due_date on ISO dates (zero-padded strings compare as dates)
DateLess(a, b) ==
    \/ a.year < b.year
    \/ a.year = b.year /\ a.month < b.month
    \/ a.year = b.year /\ a.month = b.month /\ a.day < b.day

\* one entry of errors or warnings: the kind of the message and what it names
Issue(kind, who, ref, path, group) ==
    [kind |-> kind, who |-> who, ref |-> ref, path |-> path, group |-> group]

\* the cycle path taken from the start of path
CyclePath_whole(path, id) == Append(path, id)

\* path[path.index(id):] + [id]
CyclePath(path, id) ==
    LET first == CHOOSE i \in 1..Len(path) :
                     path[i] = id /\ \A j \in 1..(i - 1) : path[j] # id
    IN  Append(SubSeq(path, first, Len(path)), id)

\* the two tests dfs makes on entry, with the test of visited made first
OnEntry_visitedFirst(id, st) ==
    IF id \in st.visited THEN "seen"
    ELSE IF id \in st.stack THEN "cycle" ELSE "new"

\* the two tests dfs makes on entry: on the recursion stack, or visited before
OnEntry(id, st) ==
    IF id \in st.stack THEN "cycle"
    ELSE IF id \in st.visited THEN "seen" ELSE "new"

\* stack.remove(task.id)
Leave(id, st) == [st EXCEPT !.stack = @ \ {id}]

\* a missing subtask id reported among the errors
MissingSubtask_error(task, sub_id, st) ==
    [st EXCEPT !.errors = Append(@, Issue("missing_subtask", task.task, sub_id, <<>>, ""))]

\* warnings.append(... has missing subtask ID ...)
MissingSubtask(task, sub_id, st) ==
    [st EXCEPT !.warnings = Append(@, Issue("missing_subtask", task.task, sub_id, <<>>, ""))]

RECURSIVE dfs(_, _, _, _, _)
RECURSIVE DfsSubtasks(_, _, _, _, _, _)

\* dfs(task, path) of validate_task_graph, task being lookup[id]; st holds
\* visited, stack, errors and warnings
dfs(id, path, lookup, r, st) ==
    LET task == lookup[id]
        entry == OnEntry(id, st)
    IN
    IF entry = "cycle"
    THEN [st EXCEPT !.errors = Append(@, Issue("cycle", "", None, CyclePath(path, id), ""))]
    ELSE IF entry = "seen" THEN st
    ELSE
        LET st1 == [st EXCEPT !.stack = @ \cup {id}, !.visited = @ \cup {id}]
            st2 == IF task.depends_on = None THEN st1
                   ELSE IF task.depends_on \notin DOMAIN lookup
                   THEN [st1 EXCEPT !.errors =
                            Append(@, Issue("missing_dependency", task.task,
                                            task.depends_on, <<>>, ""))]
                   ELSE LET dep == lookup[task.depends_on]
                            st1b == IF RulesGet(r, "dependency_order", TRUE)
                                       /\ DateLess(task.due_date, dep.due_date)
                                    THEN [st1 EXCEPT !.errors =
                                             Append(@, Issue("due_before_dependency",
                                                             task.task, dep.id, <<>>, ""))]
                                    ELSE st1
                        IN  dfs(dep.id, Append(path, id), lookup, r, st1b)
            st3 == DfsSubtasks(task, 1, path, lookup, r, st2)
        IN  Leave(id, st3)

\* dfs not descending into subtasks
DfsSubtasks_none(task, i, path, lookup, r, st) == st

\* the loop of dfs over task.subtasks, from its i-th entry on
DfsSubtasks(task, i, path, lookup, r, st) ==
    IF i > Len(task.subtasks) THEN st
    ELSE LET sub_id == task.subtasks[i]
             st1 == IF sub_id \notin DOMAIN lookup
                    THEN MissingSubtask(task, sub_id, st)
                    ELSE dfs(sub_id, Append(path, task.id), lookup, r, st)
         IN  DfsSubtasks(task, i + 1, path, lookup, r, st1)

RECURSIVE DfsAll(_, _, _, _)
\* for task in tasks: if task.id not in visited: dfs(task, []); the list is
\* in id order, from its i-th task on
DfsAll(i, lookup, r, st) ==
    IF i \notin DOMAIN lookup THEN st
    ELSE DfsAll(i + 1, lookup, r,
                IF i \in st.visited THEN st ELSE dfs(i, <<>>, lookup, r, st))

RECURSIVE HighPriorityErrors_anyGroup(_, _, _, _)
\* the high-priority rule with one "seen" flag for all groups
HighPriorityErrors_anyGroup(i, lookup, seen, errors) ==
    IF i \notin DOMAIN lookup THEN errors
    ELSE IF lookup[i].priority # "high"
    THEN HighPriorityErrors_anyGroup(i + 1, lookup, seen, errors)
    ELSE IF seen # {}
    THEN HighPriorityErrors_anyGroup(i + 1, lookup, seen,
             Append(errors, Issue("multiple_high_priority", "", None, <<>>, lookup[i].group)))
    ELSE HighPriorityErrors_anyGroup(i + 1, lookup, seen \cup {lookup[i].group}, errors)

RECURSIVE HighPriorityErrors(_, _, _, _)
\* the loop of the rule "only one high-priority task per group", from the i-th
\* task on; seen holds the keys of high_priority_seen
HighPriorityErrors(i, lookup, seen, errors) ==
    IF i \notin DOMAIN lookup THEN errors
    ELSE IF lookup[i].priority # "high"
    THEN HighPriorityErrors(i + 1, lookup, seen, errors)
    ELSE IF lookup[i].group \in seen
    THEN HighPriorityErrors(i + 1, lookup, seen,
             Append(errors, Issue("multiple_high_priority", "", None, <<>>, lookup[i].group)))
    ELSE HighPriorityErrors(i + 1, lookup, seen \cup {lookup[i].group}, errors)

RECURSIVE DuplicateNameErrors(_, _, _, _)
\* the loop of the rule "unique task names within group", from the i-th task
\* on; seen is seen_names
DuplicateNameErrors(i, lookup, seen, errors) ==
    IF i \notin DOMAIN lookup THEN errors
    ELSE LET key == <<lookup[i].group, lookup[i].task>>
         IN  DuplicateNameErrors(i + 1, lookup, seen \cup {key},
                 IF key \in seen
                 THEN Append(errors, Issue("duplicate_name", lookup[i].task, None,
                                           <<>>, lookup[i].group))
                 ELSE errors)

\* a validator outcome: the call, the exception raised ("" when it returns),
\* and the fields of the report or of the creation verdict
Report(call, raised, errors, warnings, visited) ==
    [call |-> call, raised |-> raised, is_valid |-> errors = <<>>,
     errors |-> errors, warnings |-> warnings, affected_tasks |-> visited,
     warn |-> FALSE, block |-> FALSE, message |-> ""]

\* the end of validate_task_graph raising in strict mode on warnings too
BuildReport_warnings(r, errors, warnings, visited) ==
    IF RulesGet(r, "strict_mode", FALSE) /\ (errors # <<>> \/ warnings # <<>>)
    THEN Report("validate_task_graph", "ValueError", errors, warnings, visited)
    ELSE Report("validate_task_graph", "", errors, warnings, visited)

\* the end of validate_task_graph: the report is built, then strict mode
\* raises when errors is not empty
BuildReport(r, errors, warnings, visited) ==
    IF RulesGet(r, "strict_mode", FALSE) /\ errors # <<>>
    THEN Report("validate_task_graph", "ValueError", errors, warnings, visited)
    ELSE Report("validate_task_graph", "", errors, warnings, visited)

\* validate_task_graph(tasks, rules), tasks being the values of lookup in id
\* order
validate_task_graph(lookup, rls) ==
    LET r  == RulesOrDefault(rls)
        st == DfsAll(1, lookup, r,
                     [visited |-> {}, stack |-> {}, errors |-> <<>>, warnings |-> <<>>])
        e1 == IF RulesGet(r, "group_priority_exclusive", FALSE)
              THEN HighPriorityErrors(1, lookup, {}, st.errors) ELSE st.errors
        e2 == IF RulesGet(r, "group_unique_names", FALSE)
              THEN DuplicateNameErrors(1, lookup, {}, e1) ELSE e1
    IN  BuildReport(r, e2, st.warnings, st.visited)

----------------------------------------------------------------------------
(* The task sets handed to validate_task_graph *)

\* the references of a task set, in file order
RefSeqs == UNION {[1..n -> Edges] : n \in 0..MaxRefs}

\* the titles, groups and priorities of the tasks
Titles == {"a", "b"}
Groups == {"General", "Work"}
Priorities == {"normal", "high"}

\* a title of its own for task t
TitleOf(t) == <<"a", "b", "c">>[t]

\* the record of task t of a task set
GraphRecord(t, edges, title, group, priority) ==
    [id |-> t, task |-> title, group |-> group, due_date |-> Date(2024, t, 15),
     created_at |-> "t0", priority |-> priority, status |-> "pending",
     sequence |-> t, depends_on |-> DependsOnIn(edges, t), notes |-> "",
     note_id |-> None, tags |-> <<>>, recurrence |-> DefaultRecurrence,
     parent_id |-> None, subtasks |-> SubtasksIn(edges, t)]

\* the rules tried on task sets with references
RefRules ==
    {Rules(s, o, "false", "false") :
        s \in {"true", "false"}, o \in {"true", "false", "absent"}}
    \cup {NoRules}

\* the rules tried on task sets with equal titles, groups and priorities
GroupRules ==
    {Rules(strict, "true", x, u) :
        strict \in {"true", "false"},
        x \in {"true", "false", "absent"}, u \in {"true", "false", "absent"}}
    \cup {NoRules}

\* task sets with references between tasks of different titles
InitRefs ==
    \E edges \in RefSeqs :
        /\ tasks = [t \in TaskIds |->
                       from_dict(GraphRecord(t, edges, TitleOf(t), "General", "normal"))]
        /\ rules \in RefRules

\* task sets without references, with titles, groups and priorities of choice
InitGroups ==
    \E title \in [TaskIds -> Titles], group \in [TaskIds -> Groups],
       priority \in [TaskIds -> Priorities] :
        /\ tasks = [t \in TaskIds |->
                       from_dict(GraphRecord(t, <<>>, title[t], group[t], priority[t]))]
        /\ rules \in GroupRules

InitGraph ==
    /\ InitRefs \/ InitGroups
    /\ ret = NoCall
    /\ cand = NoTask
    /\ report = NoReport
    /\ UndoIdle

\* a caller validates the task set
ValidateGraph ==
    /\ report' = validate_task_graph(tasks, rules)
    /\ UNCHANGED <<tasks, ret, rules, cand, undo_vars>>

NextGraph == ValidateGraph

SpecGraph == InitGraph /\ [][NextGraph]_vars

----------------------------------------------------------------------------
(* Claims about validate_task_graph *)

\* the rules in force have strict_mode on
StrictMode == RulesGet(RulesOrDefault(rules), "strict_mode", FALSE)

\* validate_task_graph has been called on the task set
GraphValidated == report.call = "validate_task_graph"

\* the positions of the cycle errors in the report
CycleErrors == {i \in DOMAIN report.errors : report.errors[i].kind = "cycle"}

\* the cycle error at position i names the id
NamesId(i, id) == \E j \in DOMAIN report.errors[i].path : report.errors[i].path[j] = id

\* tasks a and b depend on each other
MutualDependency(a, b) ==
    a # b /\ tasks[a].depends_on = b /\ tasks[b].depends_on = a

\* no task of the set lists a subtask
NoSubtaskRefs == \A t \in TaskIds : tasks[t].subtasks = <<>>

\* no task outside {a, b} lies on a depends_on cycle: following depends_on
\* from it never comes back to it
RECURSIVE DependsOnReaches(_, _, _)
DependsOnReaches(from, to, fuel) ==
    /\ fuel > 0
    /\ tasks[from].depends_on \in TaskIds
    /\ \/ tasks[from].depends_on = to
       \/ DependsOnReaches(tasks[from].depends_on, to, fuel - 1)

OnlyDependsOnCycle(a, b) ==
    \A t \in TaskIds \ {a, b} : ~DependsOnReaches(t, t, Cardinality(TaskIds))

\* C11 as stated: with A depends_on B and B depends_on A, non-strict
\* validate_task_graph reports exactly one cycle error, that error names both
\* ids, and is_valid is false
C11_ExactlyOneCycleError ==
    \A a, b \in TaskIds :
        (GraphValidated /\ ~StrictMode /\ MutualDependency(a, b)) =>
            /\ Cardinality(CycleErrors) = 1
            /\ \A i \in CycleErrors : NamesId(i, a) /\ NamesId(i, b)
            /\ ~report.is_valid

\* C11 amended: with A depends_on B and B depends_on A, non-strict
\* validate_task_graph reports at least one cycle error that names both ids,
\* and is_valid is false; the cycle error is the only one when no task lists a
\* subtask and no other task lies on a depends_on cycle
C11_CycleErrorNamesBoth ==
    \A a, b \in TaskIds :
        (GraphValidated /\ ~StrictMode /\ MutualDependency(a, b)) =>
            /\ \E i \in CycleErrors : NamesId(i, a) /\ NamesId(i, b)
            /\ ~report.is_valid
            /\ report.raised = ""
            /\ (NoSubtaskRefs /\ OnlyDependsOnCycle(a, b)) => Cardinality(CycleErrors) = 1

\* a mutual dependency validated in non-strict mode, next to a third task that
\* lists a subtask, with a single cycle error reported
C11_Witness ==
    /\ GraphValidated /\ ~StrictMode
    /\ \E a, b \in TaskIds : MutualDependency(a, b)
    /\ ~NoSubtaskRefs
    /\ Cardinality(CycleErrors) = 1

\* the resolved references of the task set: u depends on v, or lists v as a
\* subtask, and v is a task of the set
ResolvedEdges ==
    {e \in TaskIds \X TaskIds :
        \/ tasks[e[1]].depends_on = e[2]
        \/ \E i \in DOMAIN tasks[e[1]].subtasks : tasks[e[1]].subtasks[i] = e[2]}

\* R with the pairs joined by one more step
Step(R) == R \cup {e \in TaskIds \X TaskIds : \E v \in TaskIds : <<e[1], v>> \in R /\ <<v, e[2]>> \in R}

RECURSIVE Closure(_, _)
Closure(R, n) == IF n = 0 THEN R ELSE Closure(Step(R), n - 1)

\* the graph of resolved references has a directed cycle (self-loops count)
HasCycle == \E t \in TaskIds : <<t, t>> \in Closure(ResolvedEdges, Cardinality(TaskIds))

\* C12: non-strict validate_task_graph records a cycle error (and returns
\* is_valid false) if and only if the graph of resolved depends_on and
\* subtasks references has a directed cycle
C12_CycleErrorIffCycle ==
    (GraphValidated /\ ~StrictMode) =>
        /\ (CycleErrors # {}) <=> HasCycle
        /\ HasCycle => (report.raised = "" /\ ~report.is_valid)

\* a cycle that closes only through a subtasks reference, reported
C12_Witness ==
    /\ GraphValidated /\ ~StrictMode
    /\ HasCycle
    /\ \A t \in TaskIds : ~DependsOnReaches(t, t, Cardinality(TaskIds))
    /\ CycleErrors # {}

\* the number of entries of kind k that the sequence q holds about task t
CountAbout(q, k, t) ==
    Cardinality({i \in DOMAIN q : q[i].kind = k /\ q[i].who = tasks[t].task})

\* task t depends on an id that is not in the task set
DanglingDependsOn(t) ==
    tasks[t].depends_on # None /\ tasks[t].depends_on \notin TaskIds

\* the positions of task t's subtasks list holding an id not in the task set
DanglingSubtasks(t) ==
    {i \in DOMAIN tasks[t].subtasks : tasks[t].subtasks[i] \notin TaskIds}

\* task t is due before the task it depends on, the order rule being active
OrderViolation(t) ==
    /\ RulesGet(RulesOrDefault(rules), "dependency_order", TRUE)
    /\ tasks[t].depends_on \in TaskIds
    /\ DateLess(tasks[t].due_date, tasks[tasks[t].depends_on].due_date)

\* the number of high-priority tasks of group g
HighIn(g) == Cardinality({t \in TaskIds : tasks[t].group = g /\ tasks[t].priority = "high"})

\* the number of tasks of group g with the title
NamedIn(g, title) ==
    Cardinality({t \in TaskIds : tasks[t].group = g /\ tasks[t].task = title})

\* an active group rule is broken by the task set
GroupDefect ==
    \/ /\ RulesGet(RulesOrDefault(rules), "group_priority_exclusive", FALSE)
       /\ \E g \in Groups : HighIn(g) > 1
    \/ /\ RulesGet(RulesOrDefault(rules), "group_unique_names", FALSE)
       /\ \E g \in Groups, t \in TaskIds : NamedIn(g, tasks[t].task) > 1

\* C13: validate_task_graph records exactly one error for each task whose
\* depends_on id is absent from the task set; each absent subtask id gives a
\* warning and never an error; a task set whose only defects are dangling
\* subtask ids is reported with is_valid true
C13_DanglingReferences ==
    GraphValidated =>
        /\ \A t \in TaskIds :
              /\ CountAbout(report.errors, "missing_dependency", t)
                     = IF DanglingDependsOn(t) THEN 1 ELSE 0
              /\ CountAbout(report.warnings, "missing_subtask", t)
                     = Cardinality(DanglingSubtasks(t))
              /\ CountAbout(report.errors, "missing_subtask", t) = 0
        /\ (/\ ~HasCycle /\ ~GroupDefect
            /\ \A t \in TaskIds : ~DanglingDependsOn(t) /\ ~OrderViolation(t))
           => (report.raised = "" /\ report.is_valid)

\* a task set whose only defect is a dangling subtask id, validated: a
\* warning and a valid report
C13_Witness ==
    /\ GraphValidated
    /\ \E t \in TaskIds : DanglingSubtasks(t) # {}
    /\ ~HasCycle /\ ~GroupDefect
    /\ \A t \in TaskIds : ~DanglingDependsOn(t) /\ ~OrderViolation(t)
    /\ report.warnings # <<>>
    /\ report.is_valid

\* C14: validate_task_graph raises instead of returning if and only if
\* strict_mode is on and an error was recorded; warnings alone never make it
\* raise; when it returns, is_valid is true exactly when errors is empty
C14_RaisesIffStrictAndErrors ==
    GraphValidated =>
        /\ (report.raised # "") <=> (StrictMode /\ report.errors # <<>>)
        /\ report.errors = <<>> => report.raised = ""
        /\ report.raised = "" => (report.is_valid <=> report.errors = <<>>)

\* strict mode, warnings only: the report is returned
C14_Witness ==
    /\ GraphValidated /\ StrictMode
    /\ report.warnings # <<>> /\ report.errors = <<>>
    /\ report.raised = "" /\ report.is_valid

\* the number of errors of kind k about group g, and about title `who` if given
GroupErrors(k, g, who) ==
    Cardinality({i \in DOMAIN report.errors :
        /\ report.errors[i].kind = k
        /\ report.errors[i].group = g
        /\ report.errors[i].who = who})

\* k - 1 for k >= 1, and 0 for k = 0
Rest(k) == IF k >= 1 THEN k - 1 ELSE 0

\* C15: with group_priority_exclusive active a group of k >= 1 high-priority
\* tasks yields exactly k-1 errors, with group_unique_names active a (group,
\* title) pair occurring k >= 1 times yields exactly k-1 errors, and an
\* inactive rule yields none
C15_FirstSeenRestFlagged ==
    GraphValidated =>
        /\ \A g \in Groups :
              GroupErrors("multiple_high_priority", g, "")
                  = IF RulesGet(RulesOrDefault(rules), "group_priority_exclusive", FALSE)
                    THEN Rest(HighIn(g)) ELSE 0
        /\ \A g \in Groups : \A t \in TaskIds :
              GroupErrors("duplicate_name", g, tasks[t].task)
                  = IF RulesGet(RulesOrDefault(rules), "group_unique_names", FALSE)
                    THEN Rest(NamedIn(g, tasks[t].task)) ELSE 0

\* both rules active; one group with two high-priority tasks, the other with
\* one; a title used twice in a group: one error of each kind
C15_Witness ==
    /\ GraphValidated
    /\ RulesGet(RulesOrDefault(rules), "group_priority_exclusive", FALSE)
    /\ RulesGet(RulesOrDefault(rules), "group_unique_names", FALSE)
    /\ \E g, h \in Groups : g # h /\ HighIn(g) = 2 /\ HighIn(h) = 1
    /\ \E g \in Groups, t \in TaskIds : NamedIn(g, tasks[t].task) = 2
    /\ Len(report.errors) = 2

----------------------------------------------------------------------------
(* logic/validation.py: validate_task_creation *)

\* the message texts of Rules 1 to 4 (those of Rules 3 and 4 without the
\* task and group names they quote)
SelfDependencyText == "Task cannot depend on itself."
DueBeforeText == "Task is due before its dependency."
DuplicateText == "Task already exists in group."
HighPriorityText == "Another high-priority task already exists in group."

\* a rule that never sees a task depending on itself
IsSelfDependency_never(task) == FALSE

\* Rule 1's test: task.depends_on == task.id
IsSelfDependency(task) == task.depends_on = task.id

\* a triggered rule that blocks whatever strict_mode says
Triggered_block(acc, text, r) ==
    [acc EXCEPT !.message = text, !.warn = TRUE, !.block = TRUE]

\* a triggered rule that keeps the message of an earlier one
Triggered_keepFirst(acc, text, r) ==
    [acc EXCEPT !.message = IF @ = "" THEN text ELSE @, !.warn = TRUE,
                !.block = RulesGet(r, "strict_mode", FALSE)]

\* what each of Rules 2 to 4 does when triggered: message = text, warn = True,
\* block = rules.get("strict_mode", False)
Triggered(acc, text, r) ==
    [acc EXCEPT !.message = text, !.warn = TRUE,
                !.block = RulesGet(r, "strict_mode", FALSE)]

\* Rule 3's duplicates: the ids of the other tasks with the title and group
Duplicates(task, lookup) ==
    {t \in DOMAIN lookup :
        lookup[t].task = task.task /\ lookup[t].group = task.group /\ lookup[t].id # task.id}

\* Rule 4's conflicts: the ids of the other high-priority tasks of the group
Conflicts(task, lookup) ==
    {t \in DOMAIN lookup :
        lookup[t].group = task.group /\ lookup[t].priority = "high" /\ lookup[t].id # task.id}

\* validate_task_creation(task, task_lookup, rules)
validate_task_creation(task, lookup, rls) ==
    LET r  == RulesOrDefault(rls)
        v1 == [NoReport EXCEPT !.call = "validate_task_creation"]
        v2 == IF /\ RulesGet(r, "dependency_order", TRUE)
                 /\ task.depends_on # None
                 /\ task.depends_on \in DOMAIN lookup
                 /\ DateLess(task.due_date, lookup[task.depends_on].due_date)
              THEN Triggered(v1, DueBeforeText, r) ELSE v1
        v3 == IF /\ RulesGet(r, "group_unique_names", FALSE)
                 /\ Duplicates(task, lookup) # {}
              THEN Triggered(v2, DuplicateText, r) ELSE v2
        v4 == IF /\ RulesGet(r, "group_priority_exclusive", FALSE)
                 /\ task.priority = "high"
                 /\ Conflicts(task, lookup) # {}
              THEN Triggered(v3, HighPriorityText, r) ELSE v3
    IN  IF IsSelfDependency(task)
        THEN [v1 EXCEPT !.warn = TRUE, !.block = TRUE, !.message = SelfDependencyText]
        ELSE v4

\* the ids a candidate can have: a task of the lookup (move_to_group) or a
\* new one (add_task)
CandidateIds == TaskIds \cup {uuid4(0)}

\* the record of a candidate
CandidateRecord(id, title, group, priority, dep) ==
    [id |-> id, task |-> title, group |-> group, due_date |-> Date(2024, 2, 15),
     created_at |-> "t0", priority |-> priority, status |-> "pending",
     sequence |-> 1, depends_on |-> dep, notes |-> "",
     note_id |-> None, tags |-> <<>>, recurrence |-> DefaultRecurrence,
     parent_id |-> None, subtasks |-> <<>>]

\* the rules dicts tried on candidates
CreationRules ==
    {Rules(strict, o, x, u) :
        strict \in {"true", "false"}, o \in {"true", "false", "absent"},
        x \in {"true", "false", "absent"}, u \in {"true", "false", "absent"}}
    \cup {NoRules}

\* a lookup of three tasks and a candidate; a candidate with the id of a task
\* of the lookup is that task of the lookup
InitCreation ==
    /\ \E p1 \in Priorities, g3 \in Groups, p3 \in Priorities,
          id \in CandidateIds, title \in Titles, group \in Groups,
          priority \in Priorities, dep \in Targets \cup {None} :
          LET c == from_dict(CandidateRecord(id, title, group, priority, dep))
              lookup == <<from_dict(GraphRecord(1, <<>>, "a", "General", p1)),
                          from_dict(GraphRecord(2, <<>>, "b", "General", "normal")),
                          from_dict(GraphRecord(3, <<>>, "b", g3, p3))>>
          IN  /\ cand = c
              /\ tasks = [t \in TaskIds |-> IF t = id THEN c ELSE lookup[t]]
    /\ rules \in CreationRules
    /\ ret = NoCall
    /\ report = NoReport
    /\ UndoIdle

\* a caller validates the candidate
ValidateCreation ==
    /\ report' = validate_task_creation(cand, tasks, rules)
    /\ UNCHANGED <<tasks, ret, rules, cand, undo_vars>>

NextCreation == ValidateCreation

SpecCreation == InitCreation /\ [][NextCreation]_vars

----------------------------------------------------------------------------
(* Claims about validate_task_creation *)

\* validate_task_creation has been called on the candidate
CreationValidated == report.call = "validate_task_creation"

\* the candidate depends on itself
SelfDependent == cand.depends_on = cand.id

\* the candidate is due before the task it depends on, the order rule active
OrderTriggered ==
    /\ RulesGet(RulesOrDefault(rules), "dependency_order", TRUE)
    /\ cand.depends_on \in TaskIds
    /\ DateLess(cand.due_date, tasks[cand.depends_on].due_date)

\* another task of the candidate's group has its title, the rule active
UniqueTriggered ==
    /\ RulesGet(RulesOrDefault(rules), "group_unique_names", FALSE)
    /\ \E t \in TaskIds \ {cand.id} :
          tasks[t].task = cand.task /\ tasks[t].group = cand.group

\* the candidate and another task of its group are high-priority, the rule
\* active
PriorityTriggered ==
    /\ RulesGet(RulesOrDefault(rules), "group_priority_exclusive", FALSE)
    /\ cand.priority = "high"
    /\ \E t \in TaskIds \ {cand.id} :
          tasks[t].priority = "high" /\ tasks[t].group = cand.group

\* C16: validate_task_creation returns block = true for every candidate whose
\* depends_on is its own id, under every rules configuration
C16_SelfDependencyBlocks ==
    (CreationValidated /\ SelfDependent) =>
        (report.raised = "" /\ report.block /\ report.warn)

\* a candidate depending on itself, validated with strict_mode off and the
\* optional rules disabled, and blocked
C16_Witness ==
    /\ CreationValidated /\ SelfDependent
    /\ rules = Rules("false", "false", "false", "false")
    /\ report.block

\* C17: for a candidate that does not depend on itself, warn is true exactly
\* when an active rule is triggered, and block = (warn and strict_mode)
C17_WarnIffTriggeredBlockIffStrict ==
    (CreationValidated /\ ~SelfDependent) =>
        /\ report.raised = ""
        /\ report.warn <=> (OrderTriggered \/ UniqueTriggered \/ PriorityTriggered)
        /\ report.block <=> (report.warn /\ StrictMode)

\* a candidate not depending on itself triggers a rule with strict_mode off:
\* a warning that does not block
C17_Witness ==
    /\ CreationValidated /\ ~SelfDependent /\ ~StrictMode
    /\ UniqueTriggered
    /\ report.warn /\ ~report.block

\* the text of the last rule, in the order self-dependency, dependency order,
\* uniqueness, priority, whose condition the candidate meets; "" if none
LastTriggeredText ==
    IF PriorityTriggered THEN HighPriorityText
    ELSE IF UniqueTriggered THEN DuplicateText
    ELSE IF OrderTriggered THEN DueBeforeText
    ELSE IF SelfDependent THEN SelfDependencyText
    ELSE ""

\* C18 as stated: message is the text of the last triggered rule in the order
\* self-dependency, dependency order, uniqueness, priority, and it is empty
\* exactly when no rule is triggered
C18_MessageOfLastTriggered ==
    CreationValidated => report.message = LastTriggeredText

\* C18 amended: for a candidate depending on itself message is the
\* self-dependency text, whatever later rules it triggers; for any other
\* candidate it is the text of the last triggered rule in the order dependency
\* order, uniqueness, priority; it is empty exactly when no rule is triggered
C18_MessageOfLastTriggeredUnlessSelf ==
    CreationValidated =>
        /\ SelfDependent => report.message = SelfDependencyText
        /\ ~SelfDependent => report.message = LastTriggeredText
        /\ (report.message = "") <=>
               ~(SelfDependent \/ OrderTriggered \/ UniqueTriggered \/ PriorityTriggered)

\* a candidate that is due before its dependency and is a second
\* high-priority task of its group: the message is that of the priority rule
C18_Witness ==
    /\ CreationValidated /\ ~SelfDependent
    /\ OrderTriggered /\ PriorityTriggered
    /\ report.message = HighPriorityText

----------------------------------------------------------------------------
(* ui/undo.py: UndoManager.  A registered (undo_action, redo_action) pair  *)
(* is a number; last is the latest call: its name, its return value, the    *)
(* callback it invoked, the exception that left it, and the length of the   *)
(* redo stack when it was made.                                             *)

MaxLimit == 2
MaxPairs == 3

\* the limits an UndoManager is built with
Limits == 1..MaxLimit

\* the pairs that callers register
Pairs == 1..MaxPairs

\* the stacks of an UndoManager after a call
Stacks(u, r) == [undo_stack |-> u, redo_stack |-> r]

\* register without the redo_stack.clear()
register_noclear(u, r, l, pair) ==
    LET u1 == Append(u, pair)
    IN  Stacks(IF Len(u1) > l THEN Tail(u1) ELSE u1, r)

\* register without the limit check
register_notrim(u, r, l, pair) == Stacks(Append(u, pair), <<>>)

\* register with the newest pair dropped when the stack is full
register_dropNewest(u, r, l, pair) ==
    Stacks(IF Len(u) >= l THEN u ELSE Append(u, pair), <<>>)

\* register(undo_action, redo_action) on stacks u and r with limit l
register(u, r, l, pair) ==
    LET u1 == Append(u, pair)
    IN  Stacks(IF Len(u1) > l THEN Tail(u1) ELSE u1, <<>>)

\* the outcome of undo() or redo(): the stacks, the return value, the
\* callbacks invoked and the exception raised
Moved(u, r, result, called, raised) ==
    [undo_stack |-> u, redo_stack |-> r, result |-> result,
     called |-> called, raised |-> raised]

\* xs.pop() leaves
Front(xs) == SubSeq(xs, 1, Len(xs) - 1)

\* undo(); raises tells whether undo_action() raises
undo(u, r, raises) ==
    IF u = <<>> THEN Moved(u, r, FALSE, <<>>, "")
    ELSE LET pair == u[Len(u)]
             called == <<[pair |-> pair, action |-> "undo_action"]>>
         IN  IF raises THEN Moved(Front(u), r, FALSE, called, "Exception")
             ELSE Moved(Front(u), Append(r, pair), TRUE, called, "")

\* redo() without the push back onto the undo stack
redo_nopush(u, r, raises) ==
    IF r = <<>> THEN Moved(u, r, FALSE, <<>>, "")
    ELSE LET pair == r[Len(r)]
             called == <<[pair |-> pair, action |-> "redo_action"]>>
         IN  IF raises THEN Moved(u, Front(r), FALSE, called, "Exception")
             ELSE Moved(u, Front(r), TRUE, called, "")

\* redo(); raises tells whether redo_action() raises
redo(u, r, raises) ==
    IF r = <<>> THEN Moved(u, r, FALSE, <<>>, "")
    ELSE LET pair == r[Len(r)]
             called == <<[pair |-> pair, action |-> "redo_action"]>>
         IN  IF raises THEN Moved(u, Front(r), FALSE, called, "Exception")
             ELSE Moved(Append(u, pair), Front(r), TRUE, called, "")

\* the record of a call: what it did, the stacks it started from, and the
\* call made before it
Logged(op, result, called, raised) ==
    [op |-> op, result |-> result, called |-> called, raised |-> raised,
     before |-> Len(redo_stack),
     start |-> Stacks(undo_stack, redo_stack),
     prev |-> [op |-> last.op, result |-> last.result, called |-> last.called,
               raised |-> last.raised, start |-> last.start]]

\* UndoManager(limit)
InitUndo ==
    /\ limit \in Limits
    /\ undo_stack = <<>>
    /\ redo_stack = <<>>
    /\ last = NoOp
    /\ tasks = <<>>
    /\ ret = NoCall
    /\ ValidatorIdle

\* a handler registers a pair
Register(pair) ==
    LET s == register(undo_stack, redo_stack, limit, pair)
    IN  /\ undo_stack' = s.undo_stack
        /\ redo_stack' = s.redo_stack
        /\ last' = Logged("register", FALSE, <<>>, "")
        /\ UNCHANGED <<limit, tasks, ret, validator_vars>>

\* the user asks for undo
Undo(raises) ==
    LET s == undo(undo_stack, redo_stack, raises)
    IN  /\ undo_stack' = s.undo_stack
        /\ redo_stack' = s.redo_stack
        /\ last' = Logged("undo", s.result, s.called, s.raised)
        /\ UNCHANGED <<limit, tasks, ret, validator_vars>>

\* the user asks for redo
Redo(raises) ==
    LET s == redo(undo_stack, redo_stack, raises)
    IN  /\ undo_stack' = s.undo_stack
        /\ redo_stack' = s.redo_stack
        /\ last' = Logged("redo", s.result, s.called, s.raised)
        /\ UNCHANGED <<limit, tasks, ret, validator_vars>>

NextUndo ==
    \/ \E pair \in Pairs : Register(pair)
    \/ \E raises \in BOOLEAN : Undo(raises)
    \/ \E raises \in BOOLEAN : Redo(raises)

SpecUndo == InitUndo /\ [][NextUndo]_vars

----------------------------------------------------------------------------
(* Claims about UndoManager *)

\* C19: after any sequence of register, undo and redo calls on an UndoManager
\* with limit L >= 1, the undo stack never holds more than L pairs
C19_UndoStackWithinLimit == Len(undo_stack) <= limit

\* a redo has just pushed a pair onto the undo stack, which is now full
C19_Witness ==
    /\ last.op = "redo" /\ last.result
    /\ Len(undo_stack) = limit
    /\ limit > 1

\* C20: every register call empties the redo stack; while the redo stack is
\* empty redo() returns false, invokes no callback and changes nothing; and
\* only a successful undo() makes the redo stack non-empty again
C20_RegisterEmptiesRedo ==
    [][/\ last'.op = "register" => redo_stack' = <<>>
       /\ (redo_stack = <<>> /\ last'.op = "redo") =>
              /\ ~last'.result /\ last'.called = <<>>
              /\ undo_stack' = undo_stack /\ redo_stack' = <<>>
       /\ (redo_stack = <<>> /\ redo_stack' # <<>>) =>
              (last'.op = "undo" /\ last'.result)]_vars

\* a register made while an undone pair waited on the redo stack
C20_Witness ==
    /\ last.op = "register" /\ last.before > 0
    /\ redo_stack = <<>>

\* an undo() that returned, made on a non-empty undo stack, followed at once
\* by a redo() that returned
UndoThenRedo ==
    /\ last.op = "redo" /\ last.raised = ""
    /\ last.prev.op = "undo" /\ last.prev.raised = ""
    /\ last.prev.start.undo_stack # <<>>

\* the pair on top of the undo stack when the undo() was made
TopPair == last.prev.start.undo_stack[Len(last.prev.start.undo_stack)]

\* C21: on a non-empty undo stack, undo() followed immediately by redo()
\* invokes the top pair's undo_action once and then its redo_action once,
\* returns true both times, and leaves both stacks as they were before the
\* undo()
C21_UndoRedoRoundTrip ==
    UndoThenRedo =>
        /\ last.prev.called = <<[pair |-> TopPair, action |-> "undo_action"]>>
        /\ last.called = <<[pair |-> TopPair, action |-> "redo_action"]>>
        /\ last.prev.result /\ last.result
        /\ undo_stack = last.prev.start.undo_stack
        /\ redo_stack = last.prev.start.redo_stack

\* undo() then redo() made with one pair on the undo stack and an undone
\* pair on the redo stack
C21_Witness ==
    /\ UndoThenRedo
    /\ Len(undo_stack) = 1 /\ Len(redo_stack) = 1
    /\ last.result

----------------------------------------------------------------------------
(* logic/operations.py: filter_tasks and sort_tasks.  tasks is the list    *)
(* handed to the call; ret is the call, its arguments, the list as it was   *)
(* when the call was made, and the list returned.                           *)

MaxTasks == 3

\* filter_tasks comparing the stored status with the argument as given
filter_tasks_asGiven(ts, status, group) ==
    SelectSeq(ts, LAMBDA t :
        /\ status = "All" \/ t.status = status
        /\ group = "All Groups" \/ t.group = group)

\* filter_tasks(tasks, status, group)
filter_tasks(ts, status, group) ==
    SelectSeq(ts, LAMBDA t :
        /\ status = "All" \/ t.status = Lower(status)
        /\ group = "All Groups" \/ t.group = group)

\* the order of an ISO date string among ISO date strings
IsoRank(d) == d.year * 10000 + d.month * 100 + d.day

\* the order of a priority word among strings
StrRank(w) == CASE w = "high" -> 1 [] w = "normal" -> 2 [] OTHER -> 0

\* a sort key: a str or an int, and its place among the values of its type
KeyValue(type, rank) == [type |-> type, rank |-> rank]

\* fallback = "9999-12-31" if key == "due_date" else 9999
Fallback(key) ==
    IF key = "due_date" THEN KeyValue("str", IsoRank(Date(9999, 12, 31)))
    ELSE KeyValue("int", 9999)

\* getattr(t, key, fallback) or fallback: None, "" and 0 are falsy
SortKey(t, key) ==
    IF key = "due_date"
    THEN IF t.due_date = NoDate THEN Fallback(key)
         ELSE KeyValue("str", IsoRank(t.due_date))
    ELSE IF key = "sequence"
    THEN IF t.sequence = 0 THEN Fallback(key) ELSE KeyValue("int", t.sequence)
    ELSE IF t.priority = "" THEN Fallback(key)
         ELSE KeyValue("str", StrRank(t.priority))

\* x put into the sorted list after every element that is not greater
InsertStable(sorted, x, key) ==
    LET k == Cardinality({i \in DOMAIN sorted :
                 SortKey(sorted[i], key).rank <= SortKey(x, key).rank})
    IN  SubSeq(sorted, 1, k) \o <<x>> \o SubSeq(sorted, k + 1, Len(sorted))

RECURSIVE StableSort(_, _, _, _)
\* sorted(ts, key=...) from the i-th element on, acc being sorted already
StableSort(ts, i, acc, key) ==
    IF i > Len(ts) THEN acc
    ELSE StableSort(ts, i + 1, InsertStable(acc, ts[i], key), key)

\* sort_tasks(tasks, key): sorted() raises TypeError when it compares a str
\* with an int
sort_tasks(ts, key) ==
    IF \E i, j \in DOMAIN ts : SortKey(ts[i], key).type # SortKey(ts[j], key).type
    THEN Raised("TypeError")
    ELSE Returned(StableSort(ts, 1, <<>>, key))

\* the arguments a caller passes
StatusArgs == {"All", "Pending", "Done", "pending", "all"}
GroupArgs == {"All Groups", "General", "Work", "general"}
SortKeys == {"due_date", "sequence", "priority"}

\* the i-th task of a list, with the fields of choice
ListedTask(i, status, group, due, sequence, priority) ==
    [from_dict(GraphRecord(i, <<>>, "a", group, "normal"))
        EXCEPT !.status = status, !.due_date = due, !.sequence = sequence,
               !.priority = priority]

\* the lists of up to MaxTasks tasks that differ in status and group, in due
\* date, in sequence, or in priority
TaskLists ==
    UNION {
        {[i \in 1..n |-> ListedTask(i, st[i], g[i], Date(2024, 1, 31), 1, "normal")] :
            st \in [1..n -> {"pending", "done"}], g \in [1..n -> Groups]}
        \cup
        {[i \in 1..n |-> ListedTask(i, "pending", "General", due[i], 1, "normal")] :
            due \in [1..n -> {NoDate, Date(2024, 1, 31), Date(2024, 2, 29),
                              Date(9999, 12, 31)}]}
        \cup
        {[i \in 1..n |-> ListedTask(i, "pending", "General", Date(2024, 1, 31), q[i], "normal")] :
            q \in [1..n -> 0..2]}
        \cup
        {[i \in 1..n |-> ListedTask(i, "pending", "General", Date(2024, 1, 31), 1, pr[i])] :
            pr \in [1..n -> {"high", "normal", ""}]}
        : n \in 0..MaxTasks}

\* a call of filter_tasks or sort_tasks and what it gave
View(call, status, group, key, input, raised, value) ==
    [call |-> call, status |-> status, group |-> group, key |-> key,
     input |-> input, raised |-> raised, value |-> value]

NoView == View("", "", "", "", <<>>, "", <<>>)

InitView ==
    /\ tasks \in TaskLists
    /\ ret = NoView
    /\ ValidatorIdle
    /\ UndoIdle

\* the task list is filtered for display
Filter(status, group) ==
    /\ ret' = View("filter_tasks", status, group, "", tasks, "",
                   filter_tasks(tasks, status, group))
    /\ UNCHANGED <<tasks, validator_vars, undo_vars>>

\* the task list is sorted for display
Sort(key) ==
    LET r == sort_tasks(tasks, key)
    IN  /\ ret' = View("sort_tasks", "", "", key, tasks, r.raised,
                       IF r.raised = "" THEN r.value ELSE <<>>)
        /\ UNCHANGED <<tasks, validator_vars, undo_vars>>

NextView ==
    \/ \E status \in StatusArgs, group \in GroupArgs : Filter(status, group)
    \/ \E key \in SortKeys : Sort(key)

SpecView == InitView /\ [][NextView]_vars

----------------------------------------------------------------------------
(* Claims about filter_tasks and sort_tasks *)

\* the positions of the input list that the filter arguments select
Selected ==
    {i \in DOMAIN ret.input :
        /\ \/ ret.status = "All"
           \/ ret.status \in {"Pending", "pending"} /\ ret.input[i].status = "pending"
           \/ ret.status \in {"Done", "done"} /\ ret.input[i].status = "done"
        /\ ret.group = "All Groups" \/ ret.input[i].group = ret.group}

\* v holds the elements of xs at the positions S, in the order of xs
IsSubsequenceAt(v, xs, S) ==
    /\ Len(v) = Cardinality(S)
    /\ \E f \in [DOMAIN v -> DOMAIN xs] :
          /\ \A k \in DOMAIN v : f[k] \in S /\ v[k] = xs[f[k]]
          /\ \A k, l \in DOMAIN v : k < l => f[k] < f[l]

\* C22: filter_tasks returns, in input order and leaving the input list as it
\* was, exactly the tasks whose status is the lower-cased status argument (any
\* status for "All") and whose group is the group argument (any group for
\* "All Groups"); with both sentinels it returns the input list
C22_FilterSelectsInOrder ==
    ret.call = "filter_tasks" =>
        /\ ret.raised = ""
        /\ IsSubsequenceAt(ret.value, ret.input, Selected)
        /\ tasks = ret.input
        /\ (ret.status = "All" /\ ret.group = "All Groups") => ret.value = ret.input

\* a capitalised status argument and a group argument select the second of
\* three tasks only
C22_Witness ==
    /\ ret.call = "filter_tasks"
    /\ ret.status = "Done" /\ ret.group = "Work"
    /\ Len(ret.input) = 3
    /\ Selected = {2}
    /\ ret.value = <<ret.input[2]>>

\* sort_tasks was called with the key
Sorted(key) == ret.call = "sort_tasks" /\ ret.key = key

\* the list returned holds the tasks of the input list, each once
IsPermutation(v, xs) ==
    /\ Len(v) = Len(xs)
    /\ \E f \in [DOMAIN v -> DOMAIN xs] :
          /\ \A k \in DOMAIN v : v[k] = xs[f[k]]
          /\ \A k, l \in DOMAIN v : k # l => f[k] # f[l]

\* C23: sort_tasks with key due_date places every task whose due_date is None
\* after every task with a concrete date, and returns a permutation of its
\* input
C23_NoneDueDateSortsLast ==
    Sorted("due_date") =>
        /\ ret.raised = ""
        /\ IsPermutation(ret.value, ret.input)
        /\ \A i, j \in DOMAIN ret.value :
              (ret.value[i].due_date = NoDate /\ ret.value[j].due_date # NoDate) => j < i

\* the place of a task's own field value among the values of the field, a
\* missing due date being the one value replaced by the last-sorting fallback
FieldRank(t, key) ==
    IF key = "due_date"
    THEN IF t.due_date = NoDate THEN IsoRank(Date(9999, 12, 31)) ELSE IsoRank(t.due_date)
    ELSE IF key = "sequence" THEN t.sequence
    ELSE StrRank(t.priority)

\* the position in the input list of the task with the id
InputPosition(id) == CHOOSE i \in DOMAIN ret.input : ret.input[i].id = id

\* C24: for every key, sequence with the value 0 included, sort_tasks returns
\* the tasks in non-decreasing order of their field values, and tasks with
\* equal values keep their input order
C24_StableSortByField ==
    \A key \in SortKeys :
        Sorted(key) =>
            /\ ret.raised = ""
            /\ IsPermutation(ret.value, ret.input)
            /\ \A i, j \in DOMAIN ret.value :
                  i < j =>
                     /\ FieldRank(ret.value[i], key) <= FieldRank(ret.value[j], key)
                     /\ FieldRank(ret.value[i], key) = FieldRank(ret.value[j], key)
                            => InputPosition(ret.value[i].id) < InputPosition(ret.value[j].id)

----------------------------------------------------------------------------
(* logic/operations.py: compute_next_due_date on its own.  ret is the      *)
(* call: its arguments, the exception raised and the date returned.         *)

MaxInterval == 3

\* the due dates tried: every day of a leap year and of the year before it
CurrentDues ==
    {dt \in {Date(y, m, d) : y \in {2023, 2024}, m \in 1..12, d \in 1..31} :
        ValidDate(dt.year, dt.month, dt.day)}

\* the frequencies of recurrence_structure and "none"
Frequencies == {"none", "daily", "weekly", "monthly", "yearly"}

\* the intervals tried
Intervals == 1..MaxInterval

\* a call of compute_next_due_date and what it gave
DateCall(due, frequency, interval, raised, value) ==
    [call |-> "compute_next_due_date", current_due |-> due,
     frequency |-> frequency, interval |-> interval,
     raised |-> raised, value |-> value]

\* the arguments of a call that is still to be made
InitDates ==
    /\ \E due \in CurrentDues, f \in Frequencies, n \in Intervals :
          ret = DateCall(due, f, n, "pending", NoDate)
    /\ tasks = <<>>
    /\ ValidatorIdle
    /\ UndoIdle

\* compute_next_due_date(current_due, frequency, interval) is called
Compute ==
    /\ ret.raised = "pending"
    /\ LET r == compute_next_due_date(ret.current_due, ret.frequency, ret.interval)
       IN  ret' = DateCall(ret.current_due, ret.frequency, ret.interval, r.raised,
                           IF r.raised = "" THEN r.value ELSE NoDate)
    /\ UNCHANGED <<tasks, validator_vars, undo_vars>>

NextDates == Compute

SpecDates == InitDates /\ [][NextDates]_vars

----------------------------------------------------------------------------
(* Claims about compute_next_due_date *)

\* the day after dt
NextDay(dt) ==
    IF dt.day < DaysInMonth(dt.year, dt.month) THEN Date(dt.year, dt.month, dt.day + 1)
    ELSE IF dt.month < 12 THEN Date(dt.year, dt.month + 1, 1)
    ELSE Date(dt.year + 1, 1, 1)

RECURSIVE DaysLater(_, _)
\* the date n days after dt
DaysLater(dt, n) == IF n = 0 THEN dt ELSE DaysLater(NextDay(dt), n - 1)

\* the smaller of two numbers
Min(a, b) == IF a < b THEN a ELSE b

\* the date the claim gives for the arguments of the call
ClaimedNextDue ==
    LET y == ret.current_due.year
        m == ret.current_due.month
        d == ret.current_due.day
        n == ret.interval
    IN  CASE ret.frequency = "daily" -> DaysLater(ret.current_due, n)
          [] ret.frequency = "weekly" -> DaysLater(ret.current_due, 7 * n)
          [] ret.frequency = "yearly" -> Date(y + n, m, d)
          [] ret.frequency = "monthly" ->
                Date(y + ((m - 1 + n) \div 12), ((m - 1 + n) % 12) + 1, Min(d, 28))
          [] OTHER -> ret.current_due

\* compute_next_due_date has been called
Computed == ret.call = "compute_next_due_date" /\ ret.raised # "pending"

\* C25: compute_next_due_date returns, for daily, the date interval days
\* later; for weekly, the date 7*interval days later; for yearly, the same
\* month and day with year + interval; for monthly, year y + (m-1+interval)
\* div 12, month ((m-1+interval) mod 12) + 1 and day min(d, 28); the date
\* returned is a valid calendar date
C25_NextDueDate ==
    (Computed /\ ret.frequency # "none") =>
        /\ ret.raised = ""
        /\ ret.value = ClaimedNextDue
        /\ ValidDate(ret.value.year, ret.value.month, ret.value.day)

----------------------------------------------------------------------------
(* models/task.py and storage/file_io.py: records of the task file.  cand  *)
(* is a task of the session, tasks the list that is saved; ret is the call  *)
(* made and what it gave.                                                   *)

MaxSaved == 2

\* save_tasks(tasks): the records written to the task file (json.dump and
\* json.load give back strings, numbers, None, lists and dicts as they were)
save_tasks(ts) == [i \in DOMAIN ts |-> to_dict(ts[i])]

\* get_note_by_id(note_id) on the notes file holding the notes `stored`; None
\* is the reference "" here
get_note_by_id(note_id, stored) ==
    IF \E n \in stored : NoteId(n) = note_id
    THEN CHOOSE n \in stored : NoteId(n) = note_id
    ELSE ""

\* load_tasks() on the records of the task file
load_tasks(file, stored) ==
    [i \in DOMAIN file |->
        LET task == from_dict(file[i])
            note == IF task.note_id # None THEN get_note_by_id(task.note_id, stored) ELSE ""
        IN  IF note # "" THEN [task EXCEPT !.notes = note] ELSE task]

\* what the notes and note_id of a task can be: raw text without or with the
\* id of a note that is gone, or a linked Note (link_note, open_notes_editor,
\* load_tasks)
NotesStates ==
    {[notes |-> "", note_id |-> None], [notes |-> "memo", note_id |-> None],
     [notes |-> "memo", note_id |-> 1]}
    \cup {[notes |-> n, note_id |-> NoteId(n)] : n \in NoteObjects}

\* the i-th task of the session
SessionTask(i, status, sequence, dep, rec, tags, subs, nn) ==
    [from_dict([id |-> i, task |-> TitleOf(i), group |-> "Work",
                due_date |-> Date(2024, 1, 31), created_at |-> "t0",
                priority |-> "high", status |-> status, sequence |-> sequence,
                depends_on |-> dep, notes |-> "", note_id |-> None, tags |-> tags,
                recurrence |-> rec, parent_id |-> None, subtasks |-> subs])
        EXCEPT !.notes = nn.notes, !.note_id = nn.note_id]

\* the sets of keys a record of the task file can lack
AbsentKeys ==
    {{}, {"recurrence"}, {"group", "priority", "status", "sequence"},
     {"tags", "subtasks", "notes", "note_id", "recurrence"}}

\* the record without the keys
Without(data, keys) == [k \in DOMAIN data \ keys |-> data[k]]

\* a call and what it gave: the task from_dict returned, or the list
\* load_tasks returned
RecordCall(call, absent, value, stored, loaded) ==
    [call |-> call, absent |-> absent, value |-> value,
     stored |-> stored, loaded |-> loaded]

NoRecordCall == RecordCall("", {}, NoTask, {}, <<>>)

\* one task of the session, or a list of tasks to save
InitRecord ==
    /\ \/ /\ \E status \in {"pending", "done"}, sequence \in 0..1,
                dep \in {None, 2}, tags \in {<<>>, <<"x">>}, subs \in {<<>>, <<3>>},
                rec \in {NoRecurrence, DefaultRecurrence, Recurrence("daily", 1, "deep")},
                nn \in NotesStates :
                cand = SessionTask(1, status, sequence, dep, rec, tags, subs, nn)
          /\ tasks = <<>>
       \/ /\ cand = NoTask
          /\ \E n \in 0..MaxSaved : \E nn \in [1..n -> NotesStates] :
                tasks = [i \in 1..n |->
                            SessionTask(i, "pending", 1, None, DefaultRecurrence,
                                        <<>>, <<>>, nn[i])]
    /\ ret = NoRecordCall
    /\ rules = NoRules
    /\ report = NoReport
    /\ UndoIdle

\* a record of the task, lacking some keys, is read
FromDict(absent) ==
    /\ cand # NoTask
    /\ ret' = RecordCall("from_dict", absent,
                         from_dict(Without(to_dict(cand), absent)), {}, <<>>)
    /\ UNCHANGED <<tasks, validator_vars, undo_vars>>

\* Task.from_dict(t.to_dict())
RoundTrip ==
    /\ cand # NoTask
    /\ ret' = RecordCall("round_trip", {}, from_dict(to_dict(cand)), {}, <<>>)
    /\ UNCHANGED <<tasks, validator_vars, undo_vars>>

\* save_tasks(tasks) then load_tasks(), the notes file holding `stored`
SaveLoad(stored) ==
    /\ cand = NoTask
    /\ ret' = RecordCall("save_load", {}, NoTask, stored,
                         load_tasks(save_tasks(tasks), stored))
    /\ UNCHANGED <<tasks, validator_vars, undo_vars>>

NextRecord ==
    \/ \E absent \in AbsentKeys : FromDict(absent)
    \/ RoundTrip
    \/ \E stored \in SUBSET NoteObjects : SaveLoad(stored)

SpecRecord == InitRecord /\ [][NextRecord]_vars

----------------------------------------------------------------------------
(* Claims about Task.from_dict, Task.to_dict, save_tasks and load_tasks *)

\* C26: Task.from_dict applied to a record with no recurrence field yields a
\* task whose recurrence is the default rule {frequency: none, interval: 1,
\* clone_type: shallow}
C26_MissingRecurrenceDefaults ==
    (ret.call = "from_dict" /\ "recurrence" \in ret.absent) =>
        ret.value.recurrence = DefaultRecurrence

\* the fields of a task other than notes
PlainFields ==
    {"id", "task", "group", "due_date", "created_at", "priority", "status",
     "sequence", "depends_on", "tags", "recurrence", "parent_id", "subtasks",
     "note_id"}

\* saving and loading gave as many tasks, with the same ids and note_id values
SameTasksLoaded ==
    /\ Len(ret.loaded) = Len(tasks)
    /\ \A i \in DOMAIN tasks :
          ret.loaded[i].id = tasks[i].id /\ ret.loaded[i].note_id = tasks[i].note_id

----------------------------------------------------------------------------
(* ui/app.py and ui/controller.py: the handlers that register undo         *)
(* closures.  tasks holds the Task objects by id; ret is the App: the ids   *)
(* of app.tasks in list order, the keys of app.task_lookup, and a log of    *)
(* the last handler.  The stacks hold the closures by what they captured:   *)
(* the lists old_tasks and new_tasks and the dicts old_lookup and           *)
(* new_lookup, which refer to the Task objects and do not copy them.        *)

MaxActions == 2

\* UndoManager(limit=20)
UndoLimit == 20

\* validate_batch_conflicts(tasks): False when a later high-priority task of
\* the selection is in the group of an earlier one
validate_batch_conflicts(ts) ==
    ~\E i, j \in 1..Len(ts) :
        /\ i < j
        /\ ts[i].priority = "high" /\ ts[j].priority = "high"
        /\ ts[i].group = ts[j].group

\* get_selected_tasks(): the Task objects of the selected rows
get_selected_tasks(heap, sel) == [i \in 1..Len(sel) |-> heap[sel[i]]]

\* app.task_lookup: the dict from its keys to the Task objects
LookupOf(heap, keys) == [k \in keys |-> heap[k]]

\* the Task objects after a callee changed those of the lookup in place
Store(heap, lookup) ==
    [k \in DOMAIN heap \cup DOMAIN lookup |->
        IF k \in DOMAIN lookup THEN lookup[k] ELSE heap[k]]

\* list(self.app.tasks) and dict(self.app.task_lookup): copies of the list
\* and of the dict, holding the same Task objects
Snapshot(st) == [tasks |-> st.tasks, task_lookup |-> st.task_lookup]

\* where a handler stands: the Task objects, app.tasks, app.task_lookup, the
\* ids whose toggle raised a ValueError that the handler caught, and how the
\* handler left ("" when it ran to its end)
Standing(heap, ts, keys) ==
    [heap |-> heap, tasks |-> ts, task_lookup |-> keys, blocked |-> {}, exit |-> ""]

\* the exceptions that "except ValueError" catches
IsValueError(e) ==
    e \in {"ValueError:blocked", "ValueError:subtasks", "ValueError:date"}

\* if clone: tasks.append(clone); task_lookup[clone.id] = clone, o being what
\* toggle_status left.  The exception raised is left in exit
Indexed(st, o) ==
    IF o.raised # ""
    THEN [st EXCEPT !.heap = Store(st.heap, o.lookup), !.exit = o.raised]
    ELSE IF o.value # NoTask
    THEN [st EXCEPT !.heap = Store(Store(st.heap, o.lookup),
                                   [k \in {o.value.id} |-> o.value]),
                    !.tasks = Append(@, o.value.id),
                    !.task_lookup = @ \cup {o.value.id}]
    ELSE [st EXCEPT !.heap = Store(st.heap, o.lookup)]

\* clone = toggle_status(t, task_lookup), and the lines on the clone
ToggleAndIndex(st, t) ==
    Indexed(st, toggle_status(t, LookupOf(st.heap, st.task_lookup)))

\* "except ValueError": the toggle of t that raised one is on record as blocked
Caught(r, t) ==
    IF IsValueError(r.exit) THEN [r EXCEPT !.blocked = @ \cup {t}] ELSE r

\* the closures a handler builds from its two snapshots
Closures(old, new) ==
    [kind |-> "snapshot", task |-> None, orig_index |-> 0,
     old_tasks |-> old.tasks, old_lookup |-> old.task_lookup,
     new_tasks |-> new.tasks, new_lookup |-> new.task_lookup]

\* what a handler leaves: where the app stands, and the closures it registered
Handled(st, registered, pair) ==
    [heap |-> st.heap, tasks |-> st.tasks, task_lookup |-> st.task_lookup,
     blocked |-> st.blocked, exit |-> st.exit,
     registered |-> registered, pair |-> pair]

\* a handler that returned or raised before undo_manager.register
Left(st, exit) ==
    Handled([st EXCEPT !.exit = exit], FALSE, Closures(Snapshot(st), Snapshot(st)))

\* the end of a handler that stands at r: it takes the new snapshots and
\* registers the closures, unless it left before
Registered(old, r) ==
    IF r.exit # "" THEN Handled(r, FALSE, Closures(old, old))
    ELSE Handled(r, TRUE, Closures(old, Snapshot(r)))

\* toggle_selected_task(): a ValueError or an IndexError is caught and any
\* other exception leaves the handler; in both cases nothing is registered
toggle_selected_task(st, sel) ==
    IF sel = <<>> THEN Left(st, "IndexError")
    ELSE Registered(Snapshot(st), Caught(ToggleAndIndex(st, sel[1]), sel[1]))

RECURSIVE MarkDoneLoop(_, _, _)
RECURSIVE MarkDoneNext(_, _, _)
\* the loop of batch_mark_done from the i-th selected task on
MarkDoneLoop(st, sel, i) ==
    IF i > Len(sel) THEN st
    ELSE MarkDoneNext(Caught(ToggleAndIndex(st, sel[i]), sel[i]), sel, i)

\* after the i-th task left the loop at r: a ValueError was caught and the
\* loop goes on, any other exception ends it
MarkDoneNext(r, sel, i) ==
    IF r.exit = "" \/ IsValueError(r.exit)
    THEN MarkDoneLoop([r EXCEPT !.exit = ""], sel, i + 1)
    ELSE r

\* batch_mark_done()
batch_mark_done(st, sel) ==
    IF ~validate_batch_conflicts(get_selected_tasks(st.heap, sel))
    THEN Left(st, "Batch Conflict")
    ELSE Registered(Snapshot(st), MarkDoneLoop(st, sel, 1))

\* tags after "if tag not in t.tags: t.tags.append(tag)"
AddTag(tags, tag) ==
    IF \E i \in 1..Len(tags) : tags[i] = tag THEN tags ELSE Append(tags, tag)

\* batch_edit_tags(); tag is what the dialog returns ("" when cancelled)
batch_edit_tags(st, sel, tag) ==
    IF sel = <<>> THEN Left(st, "No tasks selected.")
    ELSE IF tag = "" THEN Left(st, "no input")
    ELSE Registered(Snapshot(st),
                    [st EXCEPT !.heap =
                        [k \in DOMAIN st.heap |->
                            IF \E i \in 1..Len(sel) : sel[i] = k
                            THEN [st.heap[k] EXCEPT !.tags = AddTag(@, tag)]
                            ELSE st.heap[k]]])

RECURSIVE MoveLoop(_, _, _, _, _)
\* the loop of move_to_group from the i-th selected task on: each task is
\* moved first and validated after, and a blocking result ends the handler
MoveLoop(st, sel, i, group, rls) ==
    IF i > Len(sel) THEN st
    ELSE LET heap   == [st.heap EXCEPT ![sel[i]].group = TitleStrip(group)]
             result == validate_task_creation(heap[sel[i]],
                                              LookupOf(heap, st.task_lookup), rls)
         IN  IF result.block THEN [st EXCEPT !.heap = heap, !.exit = "Blocked"]
             ELSE MoveLoop([st EXCEPT !.heap = heap], sel, i + 1, group, rls)

\* the end of move_to_group, the loop having left it at r
Moved_to_group(old, r, sel) ==
    IF r.exit = "" /\ ~validate_batch_conflicts(get_selected_tasks(r.heap, sel))
    THEN Registered(old, [r EXCEPT !.exit = "Batch Conflict"])
    ELSE Registered(old, r)

\* move_to_group(); group is what the dialog returns, rls is
\* {"strict_mode": settings.get("strict_mode", False)}
move_to_group(st, sel, group, rls) ==
    IF sel = <<>> THEN Left(st, "No tasks selected.")
    ELSE IF group = "" THEN Left(st, "no input")
    ELSE Moved_to_group(Snapshot(st), MoveLoop(st, sel, 1, group, rls), sel)

\* validate_dependency(child, parent)
validate_dependency(child, parent) == ~DateLess(child.due_date, parent.due_date)

\* the Task that add_task builds from the form; name, due and depends_on are
\* what the form holds, the other fields are left at what the form starts with
NewTask(inp, new_id) ==
    Task__init__(inp.name,
                 [TaskMeta EXCEPT !.group = "General", !.due_date = inp.due,
                                  !.sequence = 1, !.depends_on = inp.depends_on,
                                  !.tags = <<>>, !.notes = "",
                                  !.recurrence = Recurrence("none", 0, "shallow")],
                 new_id)

\* the rules add_task validates with
AddRules(strict) == Rules(strict, "true", "true", "true")

\* the end of add_task: the outcome of validate_task_creation, the answer to
\* "Proceed anyway?", and the append; add_task registers no closures
Added(st, new_task, validation, proceed) ==
    IF validation.block THEN Left(st, "Blocked")
    ELSE IF validation.warn /\ ~proceed THEN Left(st, "declined")
    ELSE Handled([st EXCEPT
                     !.heap = Store(@, [k \in {new_task.id} |-> new_task]),
                     !.tasks = Append(@, new_task.id),
                     !.task_lookup = @ \cup {new_task.id}],
                 FALSE, Closures(Snapshot(st), Snapshot(st)))

\* add_task(); a name of None stands for the empty entry
add_task(st, inp, strict, new_id) ==
    IF inp.name = None THEN Left(st, "Missing Task")
    ELSE IF /\ inp.depends_on # None
            /\ ~validate_dependency(NewTask(inp, new_id), st.heap[inp.depends_on])
    THEN Left(st, "Dependency validation failed.")
    ELSE Added(st, NewTask(inp, new_id),
               validate_task_creation(NewTask(inp, new_id),
                                      LookupOf(st.heap, st.task_lookup),
                                      AddRules(strict)),
               inp.proceed)

\* self.tasks.index(task), counted from 1
IndexOf(xs, x) ==
    CHOOSE i \in 1..Len(xs) : xs[i] = x /\ \A j \in 1..(i - 1) : xs[j] # x

\* self.tasks.remove(task)
Remove(xs, x) ==
    SubSeq(xs, 1, IndexOf(xs, x) - 1) \o SubSeq(xs, IndexOf(xs, x) + 1, Len(xs))

\* self.tasks.insert(orig_index, task), the index counted from 1
InsertAt(xs, i, x) ==
    IF i > Len(xs) THEN Append(xs, x)
    ELSE SubSeq(xs, 1, i - 1) \o <<x>> \o SubSeq(xs, i, Len(xs))

\* the closures of delete_task: they hold the task and its index
DeleteClosures(task, orig_index) ==
    [kind |-> "delete", task |-> task, orig_index |-> orig_index,
     old_tasks |-> <<>>, old_lookup |-> {}, new_tasks |-> <<>>, new_lookup |-> {}]

\* delete_task with the key left in task_lookup
delete_task_keepKey(st, sel) ==
    IF sel = <<>> THEN Left(st, "IndexError")
    ELSE Handled([st EXCEPT !.tasks = Remove(@, sel[1])],
                 TRUE, DeleteClosures(sel[1], IndexOf(st.tasks, sel[1])))

\* delete_task()
delete_task(st, sel) ==
    IF sel = <<>> THEN Left(st, "IndexError")
    ELSE Handled([st EXCEPT !.tasks = Remove(@, sel[1]),
                            !.task_lookup = @ \ {sel[1]}],
                 TRUE, DeleteClosures(sel[1], IndexOf(st.tasks, sel[1])))

\* the ids of filter_tasks(self.app.tasks, filter_mode, group_filter)
ToClear(st, status, group) ==
    LET found == filter_tasks(get_selected_tasks(st.heap, st.tasks), status, group)
    IN  [i \in 1..Len(found) |-> found[i].id]

RECURSIVE ClearLoop(_, _, _)
\* for t in to_clear: if t in tasks: tasks.remove(t); task_lookup.pop(t.id)
ClearLoop(st, ids, i) ==
    IF i > Len(ids) THEN st
    ELSE IF \E j \in 1..Len(st.tasks) : st.tasks[j] = ids[i]
    THEN ClearLoop([st EXCEPT !.tasks = Remove(@, ids[i]),
                              !.task_lookup = @ \ {ids[i]}], ids, i + 1)
    ELSE ClearLoop(st, ids, i + 1)

\* clear_by_filter(); confirm is the answer to "Delete n tasks?"
clear_by_filter(st, status, group, confirm) ==
    IF ToClear(st, status, group) = <<>> THEN Left(st, "No tasks match current filters.")
    ELSE IF ~confirm THEN Left(st, "declined")
    ELSE Registered(Snapshot(st), ClearLoop(st, ToClear(st, status, group), 1))

\* undo_action() of a registered pair, on app.tasks and app.task_lookup
undo_action(pair, app) ==
    IF pair.kind = "delete"
    THEN [tasks |-> InsertAt(app.tasks, pair.orig_index, pair.task),
          task_lookup |-> app.task_lookup \cup {pair.task}, raises |-> FALSE]
    ELSE [tasks |-> pair.old_tasks, task_lookup |-> pair.old_lookup, raises |-> FALSE]

\* redo_action() of a registered pair: list.remove raises ValueError when the
\* task is not in the list
redo_action(pair, app) ==
    IF pair.kind # "delete"
    THEN [tasks |-> pair.new_tasks, task_lookup |-> pair.new_lookup, raises |-> FALSE]
    ELSE IF \E j \in 1..Len(app.tasks) : app.tasks[j] = pair.task
    THEN [tasks |-> Remove(app.tasks, pair.task),
          task_lookup |-> app.task_lookup \ {pair.task}, raises |-> FALSE]
    ELSE [tasks |-> app.tasks, task_lookup |-> app.task_lookup, raises |-> TRUE]

\* the references of the task files the sessions start from: task 2 depending
\* on the later-due task 3, and task 3 a subtask of task 1
DependsOnEdge == <<[kind |-> "depends_on", from |-> 2, to |-> 3]>>
SubtasksEdge == <<[kind |-> "subtasks", from |-> 1, to |-> 3]>>

\* a session: the references of its file, the recurrence of the first task,
\* whether tasks 2 and 3 are high-priority tasks, and the strict_mode setting
Session(edges, rule, high, strict) ==
    [edges |-> edges, rule |-> rule, high |-> high, strict |-> strict]

\* the sessions stepped through
Sessions ==
    LET none == Recurrence("none", 0, "shallow")
        deep == Recurrence("weekly", 1, "deep")
    IN  {Session(<<>>, none, FALSE, "false"),
         Session(<<>>, none, FALSE, "true"),
         Session(<<>>, none, TRUE, "false"),
         Session(<<>>, deep, FALSE, "false"),
         Session(DependsOnEdge, none, FALSE, "false"),
         Session(DependsOnEdge, none, FALSE, "true"),
         Session(SubtasksEdge, none, FALSE, "false"),
         Session(SubtasksEdge, deep, FALSE, "false")}

\* the id uuid4() gives the first task that add_task builds
FirstAdded == uuid4(0)

\* what the listbox selection can be, in the order of the visible rows
Selections == {<<>>, <<1>>, <<2, 3>>, <<1, 2, 3>>, <<FirstAdded>>}

\* the selection and the answer of the askstring dialog ("" when cancelled),
\* for batch_edit_tags and for move_to_group
Asked(inputs) ==
    {<<sel, inp>> \in Selections \X inputs : sel = <<1>> \/ (sel # <<FirstAdded>> /\ inp # "")}

\* what the add-task form holds: an empty name; a new task alone, after task
\* 3 and due before or after it; a task with the title and group of task 1,
\* the user accepting the warning or not
AddInput(name, depends_on, due, proceed) ==
    [name |-> name, depends_on |-> depends_on, due |-> due, proceed |-> proceed]

AddInputs ==
    {AddInput(None, None, Date(2024, 12, 31), TRUE),
     AddInput(Missing, None, Date(2024, 12, 31), TRUE),
     AddInput(Missing, 3, Date(2024, 1, 1), TRUE),
     AddInput(Missing, 3, Date(2024, 12, 31), TRUE),
     AddInput(1, None, Date(2024, 12, 31), TRUE),
     AddInput(1, None, Date(2024, 12, 31), FALSE)}

\* the form as it is when add_task is not the handler
NoForm == AddInput(None, None, Date(2024, 12, 31), FALSE)

\* the status filters clear_by_filter runs under
ClearFilters == {"Done", "Pending"}

\* load_tasks(): the Task objects of the file; high makes tasks 2 and 3
\* high-priority tasks
LoadedTasks(edges, rule, high) ==
    [t \in TaskIds |->
        from_dict([TaskRecord(t, edges, rule, Date(2024, 1, 31)) EXCEPT
                      !.priority = IF high /\ t # 1 THEN "high" ELSE "normal"])]

\* the handlers whose undo closures restore app.tasks and app.task_lookup
SnapshotHandlers ==
    {"toggle_selected_task", "batch_mark_done", "batch_edit_tags", "move_to_group"}

\* the App before any handler ran
NoHandler(ts, keys) ==
    [tasks |-> ts, task_lookup |-> keys, steps |-> 0, handler |-> "",
     selection |-> <<>>, input |-> "", form |-> NoForm, exit |-> "", blocked |-> {},
     registered |-> FALSE, result |-> FALSE,
     before |-> [heap |-> <<>>, tasks |-> <<>>, task_lookup |-> {}],
     prev |-> [handler |-> "", registered |-> FALSE]]

\* TaskApp.__init__: load_tasks, create_task_lookup, load_settings,
\* UndoManager(limit=20)
InitUI ==
    /\ \E s \in Sessions :
           /\ tasks = LoadedTasks(s.edges, s.rule, s.high)
           /\ rules = Rules(s.strict, "absent", "absent", "absent")
    /\ ret = NoHandler(<<1, 2, 3>>, TaskIds)
    /\ cand = NoTask
    /\ report = NoReport
    /\ undo_stack = <<>>
    /\ redo_stack = <<>>
    /\ limit = UndoLimit
    /\ last = NoOp

\* where the app stands when a handler starts
Current == Standing(tasks, ret.tasks, ret.task_lookup)

\* a handler runs on the selection sel, the dialog answering input and the
\* add-task form holding form, and leaves h
Handle(name, sel, input, form, h) ==
    /\ ret.steps < MaxActions
    /\ \A i \in 1..Len(sel) : \E j \in 1..Len(ret.tasks) : ret.tasks[j] = sel[i]
    /\ tasks' = h.heap
    /\ LET s == IF h.registered
                THEN register(undo_stack, redo_stack, limit, h.pair)
                ELSE Stacks(undo_stack, redo_stack)
       IN  /\ undo_stack' = s.undo_stack
           /\ redo_stack' = s.redo_stack
    /\ ret' = [tasks |-> h.tasks, task_lookup |-> h.task_lookup,
               steps |-> ret.steps + 1, handler |-> name,
               selection |-> sel, input |-> input, form |-> form,
               exit |-> h.exit,
               blocked |-> h.blocked, registered |-> h.registered,
               result |-> FALSE,
               before |-> [heap |-> tasks, tasks |-> ret.tasks,
                           task_lookup |-> ret.task_lookup],
               prev |-> [handler |-> ret.handler, registered |-> ret.registered]]
    /\ UNCHANGED <<limit, last, validator_vars>>

ToggleSelected(sel) ==
    Handle("toggle_selected_task", sel, "", NoForm, toggle_selected_task(Current, sel))

BatchMarkDone(sel) ==
    Handle("batch_mark_done", sel, "", NoForm, batch_mark_done(Current, sel))

BatchEditTags(sel, tag) ==
    Handle("batch_edit_tags", sel, tag, NoForm, batch_edit_tags(Current, sel, tag))

MoveToGroup(sel, group) ==
    Handle("move_to_group", sel, group, NoForm, move_to_group(Current, sel, group, rules))

\* the form is filled with inp and add_task runs; the new task gets the next
\* id of uuid4()
AddTask(inp) ==
    /\ inp.depends_on \in ret.task_lookup \cup {None}
    /\ Handle("add_task", <<>>, "", inp,
              add_task(Current, inp, rules.strict_mode,
                       uuid4(Cardinality(DOMAIN tasks \ TaskIds))))

DeleteTask(sel) ==
    Handle("delete_task", sel, "", NoForm, delete_task(Current, sel))

ClearByFilter(status, confirm) ==
    Handle("clear_by_filter", <<>>, status, NoForm,
           clear_by_filter(Current, status, "All Groups", confirm))

\* perform_undo() and perform_redo(): s is what undo() or redo() left and a
\* what the closure called did to app.tasks and app.task_lookup; no Task
\* object is touched.  An exception of the closure leaves the handler.  Only
\* the handlers that change tasks count as steps
Performed(name, s, a) ==
    /\ undo_stack' = s.undo_stack
    /\ redo_stack' = s.redo_stack
    /\ ret' = [ret EXCEPT !.tasks = IF s.called # <<>> THEN a.tasks ELSE @,
                          !.task_lookup = IF s.called # <<>> THEN a.task_lookup ELSE @,
                          !.handler = name,
                          !.selection = <<>>, !.input = "", !.form = NoForm,
                          !.exit = s.raised,
                          !.blocked = {}, !.registered = FALSE,
                          !.result = s.result,
                          !.prev = [handler |-> ret.handler,
                                    registered |-> ret.registered]]
    /\ UNCHANGED <<tasks, limit, last, validator_vars>>

\* the closure on top of a stack, called on the app as it stands
Called(stack, undoing) ==
    IF stack = <<>>
    THEN [tasks |-> ret.tasks, task_lookup |-> ret.task_lookup, raises |-> FALSE]
    ELSE IF undoing THEN undo_action(stack[Len(stack)], Snapshot(ret))
    ELSE redo_action(stack[Len(stack)], Snapshot(ret))

PerformUndo ==
    \E a \in {Called(undo_stack, TRUE)} :
        Performed("perform_undo", undo(undo_stack, redo_stack, a.raises), a)

PerformRedo ==
    \E a \in {Called(redo_stack, FALSE)} :
        Performed("perform_redo", redo(undo_stack, redo_stack, a.raises), a)

NextUI ==
    \/ \E sel \in Selections : ToggleSelected(sel)
    \/ \E sel \in Selections : BatchMarkDone(sel)
    \/ \E call \in Asked({"", "x"}) : BatchEditTags(call[1], call[2])
    \/ \E call \in Asked({"", "work"}) : MoveToGroup(call[1], call[2])
    \/ \E inp \in AddInputs : AddTask(inp)
    \/ \E sel \in Selections : DeleteTask(sel)
    \/ \E status \in ClearFilters, confirm \in BOOLEAN : ClearByFilter(status, confirm)
    \/ PerformUndo
    \/ PerformRedo

SpecUI == InitUI /\ [][NextUI]_vars

\* C28: after batch_mark_done ran to its end, every selected task whose
\* toggle was not rejected as blocked is done; a selected task that was done
\* before is still done.
C28_BatchMarkDoneLeavesDone ==
    (ret.handler = "batch_mark_done" /\ ret.exit = "") =>
        \A i \in 1..Len(ret.selection) :
            ret.selection[i] \notin ret.blocked
                => tasks[ret.selection[i]].status = "done"

\* the last handler registered its closures and perform_undo then undid it
UndoneHandler ==
    /\ ret.handler = "perform_undo"
    /\ ret.result
    /\ ret.prev.handler \in SnapshotHandlers
    /\ ret.prev.registered

\* C29: after toggle_selected_task, batch_mark_done, batch_edit_tags or
\* move_to_group followed by perform_undo, every task has the status, the
\* tags and the group it had before the action, and app.tasks and
\* app.task_lookup have the members they had.
C29_UndoRestoresTasks ==
    UndoneHandler =>
        /\ ret.tasks = ret.before.tasks
        /\ ret.task_lookup = ret.before.task_lookup
        /\ \A t \in DOMAIN ret.before.heap :
              /\ t \in DOMAIN tasks
              /\ tasks[t].status = ret.before.heap[t].status
              /\ tasks[t].tags = ret.before.heap[t].tags
              /\ tasks[t].group = ret.before.heap[t].group

\* toggle_selected_task moved a deep recurring task, whose subtasks are in the
\* lookup, from pending to done
DeepCompleted ==
    /\ ret.handler = "toggle_selected_task"
    /\ ret.selection # <<>>
    /\ LET t == ret.selection[1]
       IN  /\ ret.before.heap[t].status # "done"
           /\ tasks[t].status = "done"
           /\ Get(tasks[t].recurrence, "frequency", "none") # "none"
           /\ Get(tasks[t].recurrence, "clone_type", "shallow") = "deep"
           /\ tasks[t].subtasks # <<>>

\* C30: when toggle_selected_task completes a deep recurring task, the clone
\* that toggle_status returns is appended to app.tasks and indexed, and every
\* id of the clone's subtasks is a key of app.task_lookup.
C30_ClonedSubtreeInLookup ==
    DeepCompleted =>
        /\ Len(ret.tasks) = Len(ret.before.tasks) + 1
        /\ LET c == ret.tasks[Len(ret.tasks)]
           IN  /\ c \in ret.task_lookup
               /\ c \in DOMAIN tasks
               /\ \A i \in 1..Len(tasks[c].subtasks) :
                      tasks[c].subtasks[i] \in ret.task_lookup

\* C31: when move_to_group leaves because validate_task_creation blocked a
\* selected task or because the batch-conflict check failed, every selected
\* task has the group it had before the call.
C31_BlockedMoveChangesNoGroup ==
    (ret.handler = "move_to_group" /\ ret.exit \in {"Blocked", "Batch Conflict"}) =>
        \A i \in 1..Len(ret.selection) :
            tasks[ret.selection[i]].group = ret.before.heap[ret.selection[i]].group

----------------------------------------------------------------------------
(* The recursions of the program, one call or return per step:             *)
(* clone_task_recursive under toggle_status, and dfs under                  *)
(* validate_task_graph.  ret is the interpreter: the operation, where it    *)
(* stands, the call frames (innermost last) and the locals the closures     *)
(* share.                                                                   *)

\* the call frames the steps may hold at once (Python's recursion limit is
\* far above what three tasks need)
MaxDepth == 4

\* the machine before a call
Idle ==
    [op |-> "", pc |-> "idle", raised |-> "", frames |-> <<>>, task |-> None,
     delta |-> 0, id_map |-> EmptyIdMap, n |-> 0,
     visited |-> {}, stack |-> {}, errors |-> <<>>, warnings |-> <<>>, k |-> 1]

\* the machine after the call ended, by a return or by an exception
Ended(m, raised) ==
    [m EXCEPT !.pc = IF raised = "" THEN "returned" ELSE "raised",
              !.raised = raised, !.frames = <<>>]

\* the frame of a call clone_task_recursive(task, parent) at its first line
CloneFrame(id) == [task |-> id, phase |-> "enter", i |-> 1, cloned |-> NoTask]

\* the frame of a call dfs(task, path) at its first line
DfsFrame(id, path) == [task |-> id, phase |-> "enter", i |-> 1, path |-> path]

\* xs with its last element replaced
WithTop(xs, x) == [xs EXCEPT ![Len(xs)] = x]

\* Task(task=..., ...) of clone_task_recursive for the task of the call
ClonedTask(task, delta, id_map, new_id, u) ==
    TaskCall([task       |-> task.task,
              group      |-> task.group,
              due_date   |-> AddDays(task.due_date, delta),
              priority   |-> task.priority,
              status     |-> "pending",
              sequence   |-> task.sequence,
              notes      |-> task.notes,
              tags       |-> task.tags,
              recurrence |-> NoRecurrence,
              depends_on |-> id_map[task.depends_on],
              task_id    |-> new_id,
              created_at |-> Now], u)

\* toggle_status(task, task_lookup) up to the call of the cloner: the guards,
\* the flip, compute_next_due_date and, for a shallow rule, shallow_clone; for
\* a deep rule the first call of clone_task_recursive is entered
toggle_status_entered(id, lookup, m) ==
    LET task    == lookup[id]
        toggled == [task EXCEPT !.status = Flip(task.status)]
        after   == [lookup EXCEPT ![id] = toggled]
        new_due == compute_next_due_date(toggled.due_date,
                       Get(toggled.recurrence, "frequency", "none"),
                       Get(toggled.recurrence, "interval", 1))
        call    == [m EXCEPT !.op = "toggle_status", !.task = id]
    IN  IF is_blocked(task, lookup)
        THEN [lookup |-> lookup, m |-> Ended(call, "ValueError:blocked")]
        ELSE IF IncompleteSubtasks(task, lookup)
        THEN [lookup |-> lookup, m |-> Ended(call, "ValueError:subtasks")]
        ELSE IF ~(toggled.status = "done" /\ is_recurring(toggled))
        THEN [lookup |-> after, m |-> Ended(call, "")]
        ELSE IF new_due.raised # ""
        THEN [lookup |-> after, m |-> Ended(call, new_due.raised)]
        ELSE IF Get(toggled.recurrence, "clone_type", "shallow") # "deep"
        THEN [lookup |-> after,
              m |-> Ended(call, shallow_clone(toggled, new_due.value, 0).raised)]
        ELSE [lookup |-> after,
              m |-> [call EXCEPT
                        !.pc = "cloning",
                        !.delta = ToOrdinal(new_due.value) - ToOrdinal(toggled.due_date),
                        !.frames = <<CloneFrame(id)>>]]

\* one step of the innermost clone_task_recursive call, cloned being what its
\* Task(...) call gives when the call stands at its first line
clone_step(lookup, m, cloned) ==
    LET f    == m.frames[Len(m.frames)]
        task == lookup[f.task]
        rest == SubSeq(m.frames, 1, Len(m.frames) - 1)
    IN  IF f.phase = "enter"
        THEN IF cloned.raised # "" THEN Ended(m, cloned.raised)
             ELSE [m EXCEPT !.id_map[f.task] = uuid4(m.n),
                            !.n = @ + 1,
                            !.frames = WithTop(@, [f EXCEPT
                                !.phase = "subtasks",
                                !.cloned = [cloned.value EXCEPT !.subtasks = <<>>]])]
        ELSE IF f.i > Len(task.subtasks)
        THEN IF rest = <<>> THEN Ended(m, "")
             ELSE [m EXCEPT !.frames = WithTop(rest, [rest[Len(rest)] EXCEPT
                                !.cloned.subtasks = Append(@, f.cloned.id),
                                !.i = @ + 1])]
        ELSE IF ~InLookup(lookup, task.subtasks[f.i])
        THEN [m EXCEPT !.frames = WithTop(@, [f EXCEPT !.i = @ + 1])]
        ELSE [m EXCEPT !.frames = Append(@, CloneFrame(task.subtasks[f.i]))]

\* the first lines of dfs: the tests on entry, stack.add and visited.add
dfs_enter(m) ==
    LET f     == m.frames[Len(m.frames)]
        entry == OnEntry(f.task, m)
    IN  IF entry = "cycle"
        THEN [m EXCEPT !.errors = Append(@, Issue("cycle", "", None,
                                                 CyclePath(f.path, f.task), "")),
                       !.frames = SubSeq(@, 1, Len(@) - 1)]
        ELSE IF entry = "seen" THEN [m EXCEPT !.frames = SubSeq(@, 1, Len(@) - 1)]
        ELSE [m EXCEPT !.stack = @ \cup {f.task}, !.visited = @ \cup {f.task},
                       !.frames = WithTop(@, [f EXCEPT !.phase = "depends_on"])]

\* the dependency checks of dfs, up to the call dfs(dep, path + [task.id])
dfs_depends_on(lookup, r, m) ==
    LET f    == m.frames[Len(m.frames)]
        task == lookup[f.task]
        on   == WithTop(m.frames, [f EXCEPT !.phase = "subtasks"])
    IN  IF task.depends_on = None THEN [m EXCEPT !.frames = on]
        ELSE IF task.depends_on \notin DOMAIN lookup
        THEN [m EXCEPT !.frames = on,
                       !.errors = Append(@, Issue("missing_dependency", task.task,
                                                 task.depends_on, <<>>, ""))]
        ELSE [m EXCEPT
                 !.frames = Append(on, DfsFrame(task.depends_on, Append(f.path, f.task))),
                 !.errors = IF /\ RulesGet(r, "dependency_order", TRUE)
                               /\ DateLess(task.due_date, lookup[task.depends_on].due_date)
                            THEN Append(@, Issue("due_before_dependency", task.task,
                                                 task.depends_on, <<>>, ""))
                            ELSE @]

\* one turn of the loop of dfs over task.subtasks, and stack.remove after it
dfs_subtasks(lookup, m) ==
    LET f    == m.frames[Len(m.frames)]
        task == lookup[f.task]
        on   == WithTop(m.frames, [f EXCEPT !.i = @ + 1])
    IN  IF f.i > Len(task.subtasks)
        THEN [Leave(f.task, m) EXCEPT !.frames = SubSeq(@, 1, Len(@) - 1)]
        ELSE IF task.subtasks[f.i] \notin DOMAIN lookup
        THEN [MissingSubtask(task, task.subtasks[f.i], m) EXCEPT !.frames = on]
        ELSE [m EXCEPT
                 !.frames = Append(on, DfsFrame(task.subtasks[f.i], Append(f.path, f.task)))]

\* one turn of "for task in tasks: if task.id not in visited: dfs(task, [])",
\* the list being in id order; after the loop the group rules and the report
\* are loops over the list
dfs_all(lookup, m) ==
    IF m.k \notin DOMAIN lookup THEN Ended(m, "")
    ELSE IF m.k \in m.visited THEN [m EXCEPT !.k = @ + 1]
    ELSE [m EXCEPT !.k = @ + 1, !.frames = <<DfsFrame(m.k, <<>>)>>]

\* the references of the lookups stepped through: up to two, from tasks 1
\* and 2, so that both kinds form self-loops, cycles and chains
StepEdges ==
    LET es == [kind : {"depends_on", "subtasks"}, from : {1, 2}, to : TaskIds]
    IN  UNION {[1..n -> es] : n \in 0..2}

\* the lookup of a file: with deep, the first task has a weekly rule of clone
\* type deep and tasks 2 and 3 were saved as done
StepLookup(edges, deep) ==
    [t \in TaskIds |->
        from_dict([TaskRecord(t, edges,
                              IF deep THEN Recurrence("weekly", 1, "deep")
                              ELSE Recurrence("none", 0, "shallow"),
                              Date(2024, 1, 31)) EXCEPT
                      !.status = IF deep /\ t # 1 THEN "done" ELSE "pending"])]

InitSteps ==
    /\ \E edges \in StepEdges, deep \in BOOLEAN : tasks = StepLookup(edges, deep)
    /\ ret = Idle
    /\ ValidatorIdle
    /\ UndoIdle

\* the machine moves to m; a call is entered only while the frames allow it
Stepped(m) ==
    /\ Len(m.frames) <= MaxDepth
    /\ ret' = m
    /\ UNCHANGED <<tasks, validator_vars, undo_vars>>

\* a caller calls toggle_status on task t
CallToggle(t) ==
    /\ ret.pc = "idle"
    /\ \E e \in {toggle_status_entered(t, tasks, ret)} :
           /\ tasks' = e.lookup
           /\ ret' = e.m
    /\ UNCHANGED <<validator_vars, undo_vars>>

\* the innermost clone_task_recursive call takes a step
CloneStep ==
    /\ ret.pc = "cloning"
    /\ \E cloned \in {ClonedTask(tasks[ret.frames[Len(ret.frames)].task], ret.delta,
                                  [ret.id_map EXCEPT
                                      ![ret.frames[Len(ret.frames)].task] = uuid4(ret.n)],
                                  uuid4(ret.n), uuid4(ret.n + 1))} :
           Stepped(clone_step(tasks, ret, cloned))

\* a caller calls validate_task_graph on the tasks
CallValidate ==
    /\ ret.pc = "idle"
    /\ Stepped([ret EXCEPT !.op = "validate_task_graph", !.pc = "validating"])

\* the loop over the tasks takes a turn
DfsAllStep ==
    /\ ret.pc = "validating"
    /\ ret.frames = <<>>
    /\ Stepped(dfs_all(tasks, ret))

\* the innermost dfs call takes a step
DfsEnter ==
    /\ ret.pc = "validating"
    /\ ret.frames # <<>>
    /\ ret.frames[Len(ret.frames)].phase = "enter"
    /\ Stepped(dfs_enter(ret))

DfsDependsOn ==
    /\ ret.pc = "validating"
    /\ ret.frames # <<>>
    /\ ret.frames[Len(ret.frames)].phase = "depends_on"
    /\ Stepped(dfs_depends_on(tasks, RulesOrDefault(rules), ret))

DfsSubtasksStep ==
    /\ ret.pc = "validating"
    /\ ret.frames # <<>>
    /\ ret.frames[Len(ret.frames)].phase = "subtasks"
    /\ Stepped(dfs_subtasks(tasks, ret))

NextSteps ==
    \/ \E t \in TaskIds : CallToggle(t)
    \/ CloneStep
    \/ CallValidate
    \/ DfsAllStep
    \/ DfsEnter
    \/ DfsDependsOn
    \/ DfsSubtasksStep

\* a call that can take a step takes it: the interpreter does not pause
SpecSteps == InitSteps /\ [][NextSteps]_vars /\ WF_vars(NextSteps)

\* C32: every call of toggle_status, the deep-clone recursion included, and
\* every call of validate_task_graph ends, by a return or by an exception,
\* also on lookups whose subtasks or depends_on references form a cycle.
C32_EveryCallEnds == <>(ret.pc \in {"returned", "raised"})

\* the subtasks references form a cycle through the first task
SubtasksCycle ==
    \E a, b \in TaskIds :
        /\ \E i \in 1..Len(tasks[1].subtasks) : tasks[1].subtasks[i] = a
        /\ \E i \in 1..Len(tasks[a].subtasks) : tasks[a].subtasks[i] = b
        /\ b = 1

\* toggle_status completed a deep recurring task whose subtasks form a cycle,
\* entered the cloner and ended
C32_Witness ==
    /\ ret.op = "toggle_status"
    /\ ret.pc \in {"returned", "raised"}
    /\ ret.task = 1
    /\ tasks[1].status = "done"
    /\ Get(tasks[1].recurrence, "clone_type", "shallow") = "deep"
    /\ SubtasksCycle
    /\ ret.raised \notin {"ValueError:blocked", "ValueError:subtasks"}

\* C33: under SpecUI, after add_task, toggle_selected_task, delete_task,
\* batch_mark_done, clear_by_filter, perform_undo or perform_redo the ids in
\* app.tasks are the keys of app.task_lookup, and every key maps to the task
\* with that id
C33_LookupInSync ==
    ret.handler \in {"add_task", "toggle_selected_task", "delete_task",
                     "batch_mark_done", "clear_by_filter",
                     "perform_undo", "perform_redo"} =>
        /\ {ret.tasks[i] : i \in 1..Len(ret.tasks)} = ret.task_lookup
        /\ \A k \in ret.task_lookup : k \in DOMAIN tasks /\ tasks[k].id = k

\* a task was added, a task deleted and the delete undone
C33_Witness ==
    /\ ret.handler = "perform_undo"
    /\ ret.result
    /\ ret.prev.handler = "delete_task"
    /\ FirstAdded \in ret.task_lookup
    /\ Len(ret.tasks) = Cardinality(TaskIds) + 1

----------------------------------------------------------------------------
(* ui/undo.py: a fresh UndoManager that is registered on and then undone.  *)
(* ret is the run: the pairs registered, in order, and the undo() calls     *)
(* made after them, each with the callbacks it invoked, its return value,   *)
(* the exception that left it and the stacks before and after it.           *)

MaxRegistered == 3

\* the run before any call
NoRun == [registered |-> <<>>, undone |-> <<>>]

\* UndoManager(limit)
InitFresh ==
    /\ limit \in Limits
    /\ undo_stack = <<>>
    /\ redo_stack = <<>>
    /\ last = NoOp
    /\ tasks = <<>>
    /\ ret = NoRun
    /\ ValidatorIdle

\* the registrations come first: register(pair) while no undo() was made
RegisterFresh(pair) ==
    /\ ret.undone = <<>>
    /\ Len(ret.registered) < MaxRegistered
    /\ \E s \in {register(undo_stack, redo_stack, limit, pair)} :
           /\ undo_stack' = s.undo_stack
           /\ redo_stack' = s.redo_stack
    /\ ret' = [ret EXCEPT !.registered = Append(@, pair)]
    /\ UNCHANGED <<limit, last, tasks, validator_vars>>

\* the undo() calls follow, one more than the limit at most
UndoNext(raises) ==
    /\ Len(ret.undone) <= limit
    /\ \E s \in {undo(undo_stack, redo_stack, raises)} :
           /\ undo_stack' = s.undo_stack
           /\ redo_stack' = s.redo_stack
           /\ ret' = [ret EXCEPT !.undone =
                         Append(@, [called |-> s.called, result |-> s.result,
                                    raised |-> s.raised,
                                    start |-> Stacks(undo_stack, redo_stack),
                                    end |-> Stacks(s.undo_stack, s.redo_stack)])]
    /\ UNCHANGED <<limit, last, tasks, validator_vars>>

NextFresh ==
    \/ \E pair \in Pairs : RegisterFresh(pair)
    \/ \E raises \in BOOLEAN : UndoNext(raises)

SpecFresh == InitFresh /\ [][NextFresh]_vars

\* the number of pairs a run can undo
Undoable == IF Len(ret.registered) < limit THEN Len(ret.registered) ELSE limit

\* C34: after n register calls on a fresh UndoManager with limit L, the i-th
\* undo() call, for i up to min(n, L), invokes the undo_action of the i-th most
\* recent registration and returns true when the callback returns; the undo()
\* call after those returns false, invokes nothing and changes neither stack
C34_UndoesMostRecentInReverse ==
    \A i \in 1..Len(ret.undone) :
        IF i <= Undoable
        THEN /\ ret.undone[i].called =
                    <<[pair |-> ret.registered[Len(ret.registered) - i + 1],
                       action |-> "undo_action"]>>
             /\ ret.undone[i].result = (ret.undone[i].raised = "")
        ELSE /\ ~ret.undone[i].result
             /\ ret.undone[i].called = <<>>
             /\ ret.undone[i].raised = ""
             /\ ret.undone[i].end = ret.undone[i].start

\* more pairs were registered than the limit, every pair left was undone by
\* a callback that returned, and one more undo() was made
C34_Witness ==
    /\ Len(ret.registered) = MaxRegistered
    /\ limit = 2
    /\ Len(ret.undone) = 3
    /\ ret.undone[1].result /\ ret.undone[2].result
    /\ ret.registered[1] # ret.registered[2]
    /\ ret.registered[2] # ret.registered[3]

----------------------------------------------------------------------------
(* Claims about the cycle paths of validate_task_graph *)

\* task y is the depends_on of task x or one of its subtasks
RefersTo(x, y) ==
    /\ x \in DOMAIN tasks
    /\ \/ tasks[x].depends_on = y
       \/ \E k \in 1..Len(tasks[x].subtasks) : tasks[x].subtasks[k] = y

\* the ids p names form a closed path of references
ClosedPath(p) ==
    /\ Len(p) >= 2
    /\ p[1] = p[Len(p)]
    /\ \A j \in 1..(Len(p) - 1) : RefersTo(p[j], p[j + 1])

\* C35: under SpecGraph, every cycle error recorded by validate_task_graph
\* lists ids that start and end with the same id, each id followed by its
\* depends_on or by one of its subtasks
C35_CyclePathsAreClosed ==
    report.call = "validate_task_graph" =>
        \A i \in 1..Len(report.errors) :
            report.errors[i].kind = "cycle" => ClosedPath(report.errors[i].path)

\* a cycle between two tasks was entered from a third task, which the
\* recorded path leaves out
C35_Witness ==
    /\ report.call = "validate_task_graph"
    /\ \E i \in 1..Len(report.errors) :
           /\ report.errors[i].kind = "cycle"
           /\ Len(report.errors[i].path) = 3
           /\ report.errors[i].path[1] # 1
           /\ RefersTo(1, report.errors[i].path[1])

----------------------------------------------------------------------------
(* Claims about the add-task flow *)

\* add_task ran with strict_mode off on a form naming a new title, normal
\* priority, and a dependency that is due after the new task
EarlierThanDependency ==
    /\ ret.handler = "add_task"
    /\ rules.strict_mode # "true"
    /\ ret.form.name = Missing
    /\ ret.form.depends_on # None
    /\ DateLess(ret.form.due, ret.before.heap[ret.form.depends_on].due_date)

\* C36: under SpecUI, with strict_mode off, add_task does not refuse a task
\* whose only fault is a due date earlier than that of its dependency: the
\* user is asked, and the task is appended when they proceed
C36_DependencyOrderIsSoft ==
    EarlierThanDependency =>
        /\ ret.exit \notin {"Blocked", "Dependency validation failed."}
        /\ ret.form.proceed => Len(ret.tasks) = Len(ret.before.tasks) + 1

----------------------------------------------------------------------------
(* Claims about calls that raise *)

\* C37: under Spec, whenever toggle_status raises (the blocked guards, the
\* computation of the next due date, or the construction of the clone), the
\* status of the task is what it was before the call
C37_RaisingToggleKeepsStatus ==
    (ret.task \in TaskIds /\ ret.raised # "") =>
        tasks[ret.task].status = ret.before

\* how many times the stacks s hold pair p
Held(s, p) ==
    Cardinality({i \in DOMAIN s.undo_stack : s.undo_stack[i] = p})
        + Cardinality({i \in DOMAIN s.redo_stack : s.redo_stack[i] = p})

\* C38: under SpecUndo, after undo() or redo() the two stacks together hold
\* the pairs they held before the call, also when the callback raised
C38_NoPairLost ==
    last.op \in {"undo", "redo"} =>
        \A p \in Pairs : Held(Stacks(undo_stack, redo_stack), p) = Held(last.start, p)

----------------------------------------------------------------------------
(* Claims about the recurrence of clones *)

\* C39: under Spec, every task the cloner constructs has no active
\* recurrence; a call returns a clone only for a task with an active
\* recurrence rule that it moved to done, and returns one for every such
\* task whose next due date exists
C39_ClonesNeverRecur ==
    ret.task \in TaskIds =>
        /\ \A i \in 1..Len(ret.made) : ~is_recurring(ret.made[i])
        /\ ret.value # NoTask =>
               /\ ~is_recurring(ret.value)
               /\ MovedToDone /\ is_recurring(Original)
        /\ (Completed("shallow") \/ Completed("deep")) => ret.value # NoTask

====
